---- MODULE Spec2Model ----
(***************************************************************************)
(* Model of the Newton front-end: the streaming lexer (lexer/lexer.rs),    *)
(* the token precedence table (lexer/token.rs), Source::slice (lib.rs)     *)
(* and the recursive-descent / Pratt parser (parser/parser.rs).            *)
(*                                                                         *)
(* A source is a sequence of characters; a character is a one-symbol       *)
(* string.  Offsets are byte offsets, as in the Rust code: the symbol      *)
(* "U+E9" stands for a two-byte UTF-8 character.                           *)
(***************************************************************************)
EXTENDS Integers, Sequences, FiniteSets, TLC

VARIABLES src, lx, out, lexdone, tpos, program, error_count, pstate, ctor, symtab

vars == <<src, lx, out, lexdone, tpos, program, error_count, pstate, ctor, symtab>>

(***************************************************************************)
(* Bounds of the model.                                                    *)
(***************************************************************************)
MaxLen == 4

(***************************************************************************)
(* Character classes (char::is_whitespace, is_alphabetic, is_digit, ...).  *)
(***************************************************************************)
Lower == {"a","b","c","d","e","f","g","h","i","j","k","l","m",
          "n","o","p","q","r","s","t","u","v","w","x","y","z"}

Upper == {"K","P","T","V"}

NonAscii == {"U+E9"}

Digits == {"0","1","2","3","4","5","6","7","8","9"}

Whitespace == {" ", "\n", "\t"}

Punct == {"=", ">", "<", "!", "+", "-", "&", "|", "*", "%", ":", ";", "(", ")",
          "{", "}", "[", "]", "?", "@", "^", ",", "/", ".", "'", "\"", "\\",
          "_", "$"}

AllChars == Lower \cup Upper \cup NonAscii \cup Digits \cup Whitespace \cup Punct

is_alphabetic(c) == c \in Lower \cup Upper \cup NonAscii

is_digit(c) == c \in Digits

is_alphanumeric(c) == is_alphabetic(c) \/ is_digit(c)

len_utf8(c) == IF c \in NonAscii THEN 2 ELSE 1

RECURSIVE ByteLen(_)
ByteLen(s) == IF s = <<>> THEN 0 ELSE len_utf8(Head(s)) + ByteLen(Tail(s))

is_ascii(s) == \A i \in 1..Len(s) : s[i] \notin NonAscii

(***************************************************************************)
(* Keyword table of Lexer::check_keyword.                                  *)
(***************************************************************************)
KeywordTypes ==
       <<"s","t","r","i","n","g">> :> [k |-> "String"] @@
       <<"i","8">> :> [k |-> "Integer", size |-> 8, signed |-> TRUE] @@
       <<"u","8">> :> [k |-> "Integer", size |-> 8, signed |-> FALSE] @@
       <<"i","1","6">> :> [k |-> "Integer", size |-> 16, signed |-> TRUE] @@
       <<"u","1","6">> :> [k |-> "Integer", size |-> 16, signed |-> FALSE] @@
       <<"i","3","2">> :> [k |-> "Integer", size |-> 32, signed |-> TRUE] @@
       <<"u","3","2">> :> [k |-> "Integer", size |-> 32, signed |-> FALSE] @@
       <<"i","6","4">> :> [k |-> "Integer", size |-> 64, signed |-> TRUE] @@
       <<"u","6","4">> :> [k |-> "Integer", size |-> 64, signed |-> FALSE] @@
       <<"f","3","2">> :> [k |-> "Float", size |-> 32] @@
       <<"f","6","4">> :> [k |-> "Float", size |-> 64] @@
       <<"c","h","a","r">> :> [k |-> "Character"] @@
       <<"v","o","i","d">> :> [k |-> "Void"] @@
       <<"b","o","o","l">> :> [k |-> "Bool"]

KeywordTokens ==
       <<"l","e","t">> :> "Let" @@
       <<"f","n">> :> "Fn" @@
       <<"i","f">> :> "If" @@
       <<"e","l","s","e">> :> "Else" @@
       <<"i","m","p","o","r","t">> :> "Import" @@
       <<"f","r","o","m">> :> "From" @@
       <<"r","e","t","u","r","n">> :> "Return" @@
       <<"e","x","t","e","r","n">> :> "Extern" @@
       <<"w","h","i","l","e">> :> "While" @@
       <<"t","y","p","e">> :> "Type" @@
       <<"s","t","r","u","c","t">> :> "Struct" @@
       <<"t","r","a","i","t">> :> "Trait" @@
       <<"i","m","p","l","e","m","e","n","t","s">> :> "Implements" @@
       <<"e","n","u","m">> :> "Enum" @@
       <<"n","e","w">> :> "New" @@
       <<"d","e","l","e","t","e">> :> "Delete" @@
       <<"s","i","z","e","o","f">> :> "Sizeof" @@
       <<"a","s">> :> "As" @@
       <<"s","t","a","t","i","c">> :> "Static" @@
       <<"i","n","l","i","n","e">> :> "Inline" @@
       <<"a","b","s","t","r","a","c","t">> :> "Abstract" @@
       <<"m","u","t">> :> "Mut" @@
       <<"a","n","d">> :> "And" @@
       <<"o","r">> :> "Or" @@
       <<"f","o","r">> :> "For" @@
       <<"b","r","e","a","k">> :> "Break" @@
       <<"c","o","n","t","i","n","u","e">> :> "Continue" @@
       <<"t","r","u","e">> :> "True" @@
       <<"f","a","l","s","e">> :> "False" @@
       <<"m","a","t","c","h">> :> "Match" @@
       <<"c","a","s","e">> :> "Case" @@
       <<"d","e","f","a","u","l","t">> :> "Default" @@
       <<"f","i","n","a","l","l","y">> :> "Finally" @@
       <<"v","o","l","a","t","i","l","e">> :> "Volatile" @@
       <<"r","e","g","i","s","t","e","r">> :> "Register"

(***************************************************************************)
(* Lexer state.  lx.cur is the index (1-based) of `current` in src, or     *)
(* Len(src)+1 when `current` is None; the `chars` iterator is always one   *)
(* character ahead of `current`.  lx.prev is <<>> for None, <<c>> for      *)
(* Some(c).                                                                *)
(***************************************************************************)
LexerNew == [cur |-> 1, prev |-> <<>>]

HasCurrent(s, L) == L.cur <= Len(s)

Current(s, L) == s[L.cur]

HasPeek(s, L) == L.cur + 1 <= Len(s)

PeekChar(s, L) == s[L.cur + 1]

pos(s, L) ==
    IF HasCurrent(s, L) THEN ByteLen(SubSeq(s, 1, L.cur - 1)) ELSE ByteLen(s)

PrevLen(L) == IF L.prev = <<>> THEN 0 ELSE len_utf8(L.prev[1])

Item(isok, node, val, start, end) ==
    [ok |-> isok, node |-> node, val |-> val, start |-> start, end |-> end]

spanned(s, L, start, node, val) == Item(TRUE, node, val, start, pos(s, L) - PrevLen(L))

LexErr(start, end, cause) == Item(FALSE, "LexingError", cause, start, end)

advance(s, L) ==
    IF ~HasCurrent(s, L) THEN L
    ELSE [cur  |-> L.cur + 1,
          prev |-> IF pos(s, L) > 0 THEN <<Current(s, L)>> ELSE L.prev]

RECURSIVE read_while(_, _, _)
read_while(s, L, accept) ==
    IF HasCurrent(s, L) /\ Current(s, L) \in accept
    THEN read_while(s, advance(s, L), accept)
    ELSE L

\* the text between two lexer positions (Lexer::slice on their byte offsets)
Between(s, L0, L1) == SubSeq(s, L0.cur, L1.cur - 1)

skip_whitespace(s, L) == read_while(s, L, Whitespace)

Scanned(item, L) == [some |-> TRUE, item |-> item, L |-> L]

NoToken(L) == [some |-> FALSE, item |-> <<>>, L |-> L]

check_keyword(s, L, start, slice) ==
    IF slice \in DOMAIN KeywordTypes
    THEN <<spanned(s, L, start, "TypeIdentifier", KeywordTypes[slice])>>
    ELSE IF slice \in DOMAIN KeywordTokens
    THEN <<spanned(s, L, start, KeywordTokens[slice], <<>>)>>
    ELSE <<>>

scan_identifier(s, L) ==
    LET start == pos(s, L)
        L1    == read_while(s, L, {c \in AllChars : is_alphanumeric(c) \/ c = "_"})
        slice == Between(s, L, L1)
        kw    == check_keyword(s, L1, start, slice)
    IN  IF kw # <<>> THEN Scanned(kw[1], L1)
        ELSE IF is_ascii(slice)
        THEN Scanned(spanned(s, L1, start, "Identifier", slice), L1)
        ELSE Scanned(Item(FALSE, "LexingError", "non-ascii identifiers are not allowed",
                          start, pos(s, L1) - PrevLen(L1)), L1)

scan_number(s, L) ==
    LET start == pos(s, L)
        L1    == read_while(s, L, Digits)
    IN  IF HasCurrent(s, L1) /\ Current(s, L1) = "." /\ HasPeek(s, L1)
           /\ is_digit(PeekChar(s, L1))
        THEN LET L2 == read_while(s, advance(s, L1), Digits)
             IN  Scanned(spanned(s, L2, start, "FloatLiteral", Between(s, L, L2)), L2)
        ELSE Scanned(spanned(s, L1, start, "DecLiteral", Between(s, L, L1)), L1)

\* an unterminated literal returned as a StringLiteral
scan_string_lenient(s, L) ==
    LET L1    == advance(s, L)
        start == pos(s, L1)
        L2    == read_while(s, L1, AllChars \ {"\""})
        slice == Between(s, L1, L2)
        L3    == advance(s, L2)
        sp    == spanned(s, L3, start, "StringLiteral", slice)
    IN  Scanned(IF sp.end - sp.start > 0 THEN [sp EXCEPT !.end = sp.end - 1] ELSE sp, L3)

scan_string(s, L) ==
    LET L1    == advance(s, L)
        start == pos(s, L1)
        L2    == read_while(s, L1, AllChars \ {"\""})
        slice == Between(s, L1, L2)
        L3    == advance(s, L2)
    IN  IF ~HasCurrent(s, L2)
        THEN Scanned(LexErr(pos(s, L3), pos(s, L3), "unterminated string literal"), L3)
        ELSE LET sp == spanned(s, L3, start, "StringLiteral", slice)
             IN  Scanned(IF sp.end - sp.start > 0
                         THEN [sp EXCEPT !.end = sp.end - 1] ELSE sp, L3)

consume_once(s, L, start, node) ==
    LET L1 == advance(s, L) IN Scanned(spanned(s, L1, start, node, <<>>), L1)

\* consume_multiple!(self, start, next, first, second); the four-argument
\* form of the macro is the case next = the character under the cursor
consume_multiple(s, L, start, next, first, second) ==
    LET L1 == advance(s, L)
    IN  IF HasCurrent(s, L1) /\ Current(s, L1) = next
        THEN LET L2 == advance(s, L1) IN Scanned(spanned(s, L2, start, second, <<>>), L2)
        ELSE Scanned(spanned(s, L1, start, first, <<>>), L1)

scan_equals(s, L, start) ==
    IF ~HasPeek(s, L) THEN NoToken(L)
    ELSE LET token == IF PeekChar(s, L) = "=" THEN "EqualsEquals"
                      ELSE IF PeekChar(s, L) = ">" THEN "Arrow"
                      ELSE "Equals"
             L2    == advance(s, advance(s, L))
         IN  Scanned(spanned(s, L2, start, token, <<>>), L2)

\* a run of dots reported as an error without being consumed
scan_dots_unread(s, L, start) ==
    LET L1   == read_while(s, L, {"."})
        dots == Between(s, L, L1)
    IN  IF Len(dots) = 1 THEN Scanned(spanned(s, L1, start, "Dot", <<>>), L1)
        ELSE IF Len(dots) = 3 THEN Scanned(spanned(s, L1, start, "Varargs", <<>>), L1)
        ELSE Scanned(LexErr(start, pos(s, L1) - 1, "too many dots"), L)

\* three dots or more taken as Varargs
scan_dots_three_or_more(s, L, start) ==
    LET L1   == read_while(s, L, {"."})
        dots == Between(s, L, L1)
    IN  IF Len(dots) = 1 THEN Scanned(spanned(s, L1, start, "Dot", <<>>), L1)
        ELSE IF Len(dots) >= 3 THEN Scanned(spanned(s, L1, start, "Varargs", <<>>), L1)
        ELSE Scanned(LexErr(start, pos(s, L1) - 1, "too many dots"), L1)

scan_dots(s, L, start) ==
    LET L1   == read_while(s, L, {"."})
        dots == Between(s, L, L1)
    IN  IF Len(dots) = 1 THEN Scanned(spanned(s, L1, start, "Dot", <<>>), L1)
        ELSE IF Len(dots) = 3 THEN Scanned(spanned(s, L1, start, "Varargs", <<>>), L1)
        ELSE Scanned(LexErr(start, pos(s, L1) - 1, "too many dots"), L1)

CharEscapes ==
    <<"\\", "\\">> :> "\\" @@ <<"\\", "0">> :> "NUL" @@ <<"\\", "n">> :> "\n" @@
    <<"\\", "r">> :> "\r" @@ <<"\\", "t">> :> "\t"

scan_char(s, L, start) ==
    LET L1 == advance(s, L)
        L2 == read_while(s, L1, AllChars \ {"'"})
        c  == Between(s, L1, L2)
        L3 == advance(s, L2)
        result ==
            IF ByteLen(c) = 1 /\ c # <<"\\">>
            THEN Item(TRUE, "Char", c, start + 1, start + 1)
            ELSE IF ByteLen(c) = 2 /\ c \in DOMAIN CharEscapes
            THEN Item(TRUE, "Char", <<CharEscapes[c]>>, start + 1, start + 1)
            ELSE LexErr(start, pos(s, L2), "char must have a length of one")
    IN  Scanned(result, L3)

SingleCharTokens ==
    "*" :> "Star" @@ "%" :> "Percent" @@ ":" :> "Colon" @@ ";" :> "Semicolon" @@
    "(" :> "LeftParen" @@ ")" :> "RightParen" @@ "{" :> "LeftBrace" @@
    "}" :> "RightBrace" @@ "[" :> "LeftBracket" @@ "]" :> "RightBracket" @@
    "?" :> "Question" @@ "@" :> "At" @@ "^" :> "Caret" @@ "," :> "Comma"

RECURSIVE scan_token(_, _)
scan_token(s, L0) ==
    LET L     == skip_whitespace(s, L0)
        start == pos(s, L)
    IN  IF ~HasCurrent(s, L) THEN NoToken(L)
        ELSE LET ch == Current(s, L) IN
        CASE ch = "=" -> scan_equals(s, L, start)
          [] ch = "/" -> IF HasPeek(s, L) /\ PeekChar(s, L) = "/"
                         THEN scan_token(s, read_while(s, L, AllChars \ {"\n"}))
                         ELSE consume_once(s, L, start, "Slash")
          [] ch = "." -> scan_dots(s, L, start)
          [] ch = "'" -> scan_char(s, L, start)
          [] ch = "!" -> consume_multiple(s, L, start, "=", "Bang", "BangEquals")
          [] ch = "+" -> consume_multiple(s, L, start, "+", "Plus", "PlusPlus")
          [] ch = "-" -> consume_multiple(s, L, start, "-", "Minus", "MinusMinus")
          [] ch = "<" -> consume_multiple(s, L, start, "=", "Smaller", "SmallerEquals")
          [] ch = ">" -> consume_multiple(s, L, start, "=", "Greater", "GreaterEquals")
          [] ch = "&" -> consume_multiple(s, L, start, "&", "Ampersand", "AmpersandAmpersand")
          [] ch = "|" -> consume_multiple(s, L, start, "|", "Pipe", "PipePipe")
          [] ch \in DOMAIN SingleCharTokens ->
                         consume_once(s, L, start, SingleCharTokens[ch])
          [] ch = "\"" -> scan_string(s, L)
          [] is_alphabetic(ch) -> scan_identifier(s, L)
          [] is_digit(ch) -> scan_number(s, L)
          [] OTHER -> Scanned(LexErr(start, start, "default"), advance(s, L))

(***************************************************************************)
(* Source::slice(span) = &code[span.start ..= span.end].  The slice        *)
(* panics when the range leaves the buffer or cuts a character.            *)
(***************************************************************************)
Boundaries(s) == {i \in 1..Len(s) + 1 : TRUE}

ByteOffsetOf(s, i) == ByteLen(SubSeq(s, 1, i - 1))

Source_slice(s, start, end) ==
    IF /\ \E i \in Boundaries(s) : ByteOffsetOf(s, i) = start
       /\ \E j \in Boundaries(s) : ByteOffsetOf(s, j) = end + 1
       /\ start <= end + 1
    THEN LET i == CHOOSE i \in Boundaries(s) : ByteOffsetOf(s, i) = start
             j == CHOOSE j \in Boundaries(s) : ByteOffsetOf(s, j) = end + 1
         IN  [panic |-> FALSE, text |-> SubSeq(s, i, j - 1)]
    ELSE [panic |-> TRUE, text |-> <<>>]

(***************************************************************************)
(* TokenType::precedence and the Precedence enum (lexer/token.rs).         *)
(***************************************************************************)
PrecNone == 0
PrecAssignment == 1
PrecAnd == 2
PrecEquality == 3
PrecComparison == 4
PrecSum == 5
PrecProduct == 6
PrecUnary == 7
PrecCall == 8

\* Sum and Product exchanged
precedence_sum_over_product(node) ==
    CASE node = "Equals" -> PrecAssignment
      [] node \in {"AmpersandAmpersand", "PipePipe"} -> PrecAnd
      [] node \in {"EqualsEquals", "BangEquals"} -> PrecEquality
      [] node \in {"Greater", "GreaterEquals", "Smaller", "SmallerEquals"} -> PrecComparison
      [] node \in {"Plus", "PlusPlus", "Minus", "MinusMinus"} -> PrecProduct
      [] node \in {"Star", "Slash", "Percent", "As"} -> PrecSum
      [] node \in {"LeftParen", "LeftBrace", "Dot"} -> PrecCall
      [] OTHER -> PrecNone

precedence(node) ==
    CASE node = "Equals" -> PrecAssignment
      [] node \in {"AmpersandAmpersand", "PipePipe"} -> PrecAnd
      [] node \in {"EqualsEquals", "BangEquals"} -> PrecEquality
      [] node \in {"Greater", "GreaterEquals", "Smaller", "SmallerEquals"} -> PrecComparison
      [] node \in {"Plus", "PlusPlus", "Minus", "MinusMinus"} -> PrecSum
      [] node \in {"Star", "Slash", "Percent", "As"} -> PrecProduct
      [] node \in {"LeftParen", "LeftBrace", "Dot"} -> PrecCall
      [] OTHER -> PrecNone

(***************************************************************************)
(* The parser (parser/parser.rs).  The scanner is the lexed sequence out;  *)
(* a parser position P holds the index i of the peeked item and the error  *)
(* counter ec.  Every parse function returns a result record: Ok(value),   *)
(* Err(error) or Panic, each with the position reached.                    *)
(***************************************************************************)
SourceName == <<"m", "a", "i", "n">>

Ok(v, P) == [ok |-> TRUE, panic |-> FALSE, v |-> v, P |-> P]

Err(e, P) == [ok |-> FALSE, panic |-> FALSE, v |-> e, P |-> P]

Panic(P) == [ok |-> FALSE, panic |-> TRUE, v |-> "panic", P |-> P]

ParseError(kind, msg, start, end) ==
    [err |-> kind, msg |-> msg, start |-> start, end |-> end]

\* a lexer Err item as the Spanned<ParseError> it carries
ErrOf(item) == ParseError(item.node, item.val, item.start, item.end)

Bump(P) == [P EXCEPT !.ec = @ + 1]

Step(P) == [P EXCEPT !.i = @ + 1]

at_end(P) == P.i > Len(out)

Peek(P) == out[P.i]

peek_equals(P, expected) == ~at_end(P) /\ Peek(P).ok /\ Peek(P).node = expected

lexer_error(P, start, end, cause) ==
    Err(ParseError("LexingError", cause, start, end), Bump(P))

eof(P) == lexer_error(P, ByteLen(src), ByteLen(src), "unexpected eof")

prefix_error(P, token) ==
    Err(ParseError("PrefixError", token.node, token.start, token.end), Bump(P))

infix_error(P, token) ==
    Err(ParseError("InfixError", token.node, token.start, token.end), Bump(P))

consume_error(P, actual, expected) ==
    Err(ParseError("ConsumeError", <<actual.node, expected>>, actual.start, actual.end),
        Bump(P))

Parser_advance(P) ==
    IF at_end(P) THEN eof(P)
    ELSE IF Peek(P).ok THEN Ok(Peek(P), Step(P))
    ELSE Err(ErrOf(Peek(P)), Step(P))

consume(P, expected) ==
    IF at_end(P) THEN eof(P)
    ELSE IF ~Peek(P).ok THEN Err(ErrOf(Peek(P)), P)
    ELSE IF Peek(P).node = expected THEN Parser_advance(P)
    ELSE consume_error(P, Peek(P), expected)

match_token(P, expected) ==
    IF peek_equals(P, expected)
    THEN LET r == consume(P, expected) IN IF ~r.ok THEN r ELSE Ok(TRUE, r.P)
    ELSE Ok(FALSE, P)

SpannedStr(token) == [node |-> token.val, start |-> token.start, end |-> token.end]

consume_identifier(P) ==
    IF at_end(P) THEN eof(P)
    ELSE IF ~Peek(P).ok THEN Err(ErrOf(Peek(P)), P)
    ELSE IF Peek(P).node = "Identifier"
    THEN LET r == Parser_advance(P) IN IF ~r.ok THEN r ELSE Ok(SpannedStr(Peek(P)), r.P)
    ELSE consume_error(P, Peek(P), "identifier")

consume_string(P) ==
    IF at_end(P) THEN eof(P)
    ELSE IF ~Peek(P).ok THEN Err(ErrOf(Peek(P)), P)
    ELSE IF Peek(P).node = "StringLiteral"
    THEN LET r == Parser_advance(P) IN IF ~r.ok THEN r ELSE Ok(SpannedStr(Peek(P)), r.P)
    ELSE consume_error(P, Peek(P), "string")

\* >= in place of >
next_higher_or_equal_precedence(P, prec, no_struct) ==
    /\ ~at_end(P)
    /\ Peek(P).ok
    /\ IF Peek(P).node = "LeftBrace"
       THEN ~no_struct /\ precedence(Peek(P).node) >= prec
       ELSE precedence(Peek(P).node) >= prec

\* no_struct ignored: `{` always binds as a struct initialiser
next_higher_precedence_with_struct(P, prec, no_struct) ==
    /\ ~at_end(P)
    /\ Peek(P).ok
    /\ precedence(Peek(P).node) > prec

next_higher_precedence(P, prec, no_struct) ==
    /\ ~at_end(P)
    /\ Peek(P).ok
    /\ IF Peek(P).node = "LeftBrace"
       THEN ~no_struct /\ precedence(Peek(P).node) > prec
       ELSE precedence(Peek(P).node) > prec

(***************************************************************************)
(* AST constructors (ast/ast.rs, types/types.rs).  Every Spanned<T> is a   *)
(* record with start and end next to the fields of T.                      *)
(***************************************************************************)
Expr(kind, start, end, fields) == [kind |-> kind, start |-> start, end |-> end] @@ fields

UserIdentifier(file, name) == [file |-> file, name |-> name]

SimpleType(s) == [t |-> "Simple", s |-> s]

SpannedType(start, end, ty) == [start |-> start, end |-> end, ty |-> ty]

\* Pointer::new / Ref::new: a size above 2 panics
Pointer_new(base, size) == IF size > 2 THEN <<>> ELSE <<[t |-> "Pointer", base |-> base, size |-> size]>>

Ref_new(base, size) == IF size > 2 THEN <<>> ELSE <<[t |-> "Ref", base |-> base, size |-> size]>>

user_identifier(P, e) ==
    IF e.kind = "Identifier" THEN Ok(UserIdentifier(SourceName, e.name), P)
    ELSE IF e.kind = "Access"
    THEN IF e.left.kind = "Identifier"
         THEN Ok(UserIdentifier(e.left.name, e.identifier.node), P)
         ELSE Err(ParseError("InternalError",
                  "the left side of this expression has to be an identifier",
                  e.left.start, e.left.end), P)
    ELSE Err(ParseError("InternalError",
             "the expression for a user identifier has to be an identifier or access expression",
             e.start, e.end), P)

\* the module is never split off the callee
get_info_whole_callee(e) == <<SourceName, e>>

get_info_about_callee(e) ==
    IF e.kind = "Access" /\ e.left.kind = "Identifier"
    THEN <<e.left.name,
           Expr("Identifier", e.identifier.start, e.identifier.end,
                [name |-> e.identifier.node])>>
    ELSE <<SourceName, e>>

BoolOperators ==
    {"EqualsEquals", "BangEquals", "Smaller", "SmallerEquals", "Greater",
     "GreaterEquals", "AmpersandAmpersand", "PipePipe"}

ArithOperators == {"Plus", "Minus", "Star", "Slash", "Percent"}

LiteralKinds == {"NullLiteral", "DecLiteral", "FloatLiteral", "StringLiteral", "Char"}

UnaryKinds ==
    "Minus" :> "Negate" @@ "Ampersand" :> "Reference" @@
    "Star" :> "Dereference" @@ "Bang" :> "BoolNegate"

\* self.f(a): a call of one parse method from another
RECURSIVE Call(_, _)

RECURSIVE parse_expression_loop(_, _, _, _)
parse_expression_loop(P, left, prec, no_struct) ==
    IF ~next_higher_precedence(P, prec, no_struct) THEN Ok(left, P) ELSE
    LET token == Parser_advance(P) IN
    IF ~token.ok THEN token ELSE
    LET r == Call("infix", <<token.P, token.v, left, no_struct>>) IN
    IF ~r.ok THEN r ELSE
    parse_expression_loop(r.P, r.v, prec, no_struct)

parse_expression(P, prec, no_struct) ==
    LET token == Parser_advance(P) IN
    IF ~token.ok THEN token ELSE
    LET left == Call("prefix", <<token.P, token.v, no_struct>>) IN
    IF ~left.ok THEN left ELSE
    parse_expression_loop(left.P, left.v, prec, no_struct)

RECURSIVE expression_loop(_, _, _)
expression_loop(P, left, no_struct) ==
    IF ~peek_equals(P, "Equals") THEN Ok(left, P) ELSE
    LET eq == consume(P, "Equals") IN
    IF ~eq.ok THEN eq ELSE
    LET value == Call("expression", <<eq.P, no_struct>>) IN
    IF ~value.ok THEN value ELSE
    expression_loop(value.P,
        Expr("Assignment", left.start, value.v.end,
             [left |-> left, eq |-> eq.v, value |-> value.v]),
        no_struct)

expression(P, no_struct) ==
    LET left == Call("parse_expression", <<P, PrecAssignment, no_struct>>) IN
    IF ~left.ok THEN left ELSE
    expression_loop(left.P, left.v, no_struct)

argument_list(P, arguments) ==
    IF at_end(P) \/ peek_equals(P, "RightParen") THEN Ok(arguments, P) ELSE
    LET e == Call("expression", <<P, FALSE>>) IN
    IF ~e.ok THEN e ELSE
    IF peek_equals(e.P, "RightParen") THEN Call("argument_list", <<e.P, Append(arguments, e.v)>>) ELSE
    LET c == consume(e.P, "Comma") IN
    IF ~c.ok THEN c ELSE
    Call("argument_list", <<c.P, Append(arguments, e.v)>>)

initializer_list(P, inits) ==
    IF at_end(P) \/ peek_equals(P, "RightBrace") THEN Ok(inits, P) ELSE
    LET identifier == consume_identifier(P) IN
    IF ~identifier.ok THEN identifier ELSE
    LET colon == consume(identifier.P, "Colon") IN
    IF ~colon.ok THEN colon ELSE
    LET e == Call("expression", <<colon.P, FALSE>>) IN
    IF ~e.ok THEN e ELSE
    IF peek_equals(e.P, "RightBrace")
    THEN Call("initializer_list", <<e.P, Append(inits, <<identifier.v, e.v>>)>>) ELSE
    LET c == consume(e.P, "Comma") IN
    IF ~c.ok THEN c ELSE
    Call("initializer_list", <<c.P, Append(inits, <<identifier.v, e.v>>)>>)

prefix(P, token, no_struct) ==
    CASE token.node = "NullLiteral" ->
            Ok(Expr("NullLiteral", token.start, token.end, [lit |-> <<>>]), P)
      [] token.node \in LiteralKinds \ {"NullLiteral"} ->
            Ok(Expr(token.node, token.start, token.end, [lit |-> token.val]), P)
      [] token.node = "Sizeof" ->
            LET ty == Call("consume_type", <<P>>) IN
            IF ~ty.ok THEN ty ELSE
            Ok(Expr("SizeOf", ty.v.start, ty.v.end, [ty |-> ty.v.ty]), ty.P)
      [] token.node = "New" ->
            LET e == Call("expression", <<P, no_struct>>) IN
            IF ~e.ok THEN e ELSE
            Ok(Expr("New", e.v.start, e.v.end, [inner |-> e.v]), e.P)
      [] token.node = "LeftParen" ->
            LET e == Call("expression", <<P, FALSE>>) IN
            IF ~e.ok THEN e ELSE
            LET c == consume(e.P, "RightParen") IN
            IF ~c.ok THEN c ELSE
            Ok([e.v EXCEPT !.start = @ - 1, !.end = @ + 1], c.P)
      [] token.node \in DOMAIN UnaryKinds ->
            LET next == Call("parse_expression", <<P, PrecUnary, no_struct>>) IN
            IF ~next.ok THEN next ELSE
            Ok(Expr(UnaryKinds[token.node], token.start, next.v.end,
                    [op |-> token, inner |-> next.v]), next.P)
      [] token.node = "Identifier" ->
            IF ~no_struct /\ peek_equals(P, "LeftBrace")
            THEN LET m == match_token(P, "LeftBrace") IN
                 IF ~m.ok THEN m ELSE
                 LET init_list == Call("initializer_list", <<m.P, <<>>>>) IN
                 IF ~init_list.ok THEN init_list ELSE
                 LET brace == consume(init_list.P, "RightBrace") IN
                 IF ~brace.ok THEN brace ELSE
                 Ok(Expr("StructInitialization", token.start, brace.v.end,
                         [identifier |-> [node  |-> UserIdentifier(SourceName, token.val),
                                          start |-> token.start, end |-> token.end],
                          fields |-> init_list.v]), brace.P)
            ELSE Ok(Expr("Identifier", token.start, token.end, [name |-> token.val]), P)
      [] OTHER -> prefix_error(P, token)

infix(P, token, left, no_struct) ==
    CASE token.node \in BoolOperators \cup ArithOperators ->
            LET right == Call("parse_expression", <<P, precedence(token.node), no_struct>>) IN
            IF ~right.ok THEN right ELSE
            Ok(Expr(IF token.node \in BoolOperators THEN "BoolBinary" ELSE "Binary",
                    left.start, right.v.end,
                    [left |-> left, op |-> token, right |-> right.v]), right.P)
      [] token.node = "As" ->
            LET ty == Call("consume_type", <<P>>) IN
            IF ~ty.ok THEN ty ELSE
            Ok(Expr("Cast", left.start, ty.v.end,
                    [expr |-> left, as |-> token, ty |-> ty.v]), ty.P)
      [] token.node = "Dot" ->
            LET identifier == consume_identifier(P) IN
            IF ~identifier.ok THEN identifier ELSE
            Ok(Expr("Access", left.start, identifier.v.end,
                    [left |-> left, identifier |-> identifier.v]), identifier.P)
      [] token.node = "LeftBrace" ->
            LET init_list == Call("initializer_list", <<P, <<>>>>) IN
            IF ~init_list.ok THEN init_list ELSE
            LET brace == consume(init_list.P, "RightBrace") IN
            IF ~brace.ok THEN brace ELSE
            LET identifier == user_identifier(brace.P, left) IN
            IF ~identifier.ok THEN identifier ELSE
            Ok(Expr("StructInitialization", token.start, brace.v.end,
                    [identifier |-> [node  |-> identifier.v,
                                     start |-> left.start, end |-> left.end],
                     fields |-> init_list.v]), brace.P)
      [] token.node = "LeftParen" ->
            LET args == Call("argument_list", <<P, <<>>>>) IN
            IF ~args.ok THEN args ELSE
            LET paren == consume(args.P, "RightParen") IN
            IF ~paren.ok THEN paren ELSE
            LET info == get_info_about_callee(left) IN
            Ok(Expr("Call", left.start, paren.v.end,
                    [module |-> info[1], callee |-> info[2], arguments |-> args.v]),
               paren.P)
      [] OTHER -> infix_error(P, token)

\* while self.match_token(tok)? { counter += 1 }
RECURSIVE count_repeats(_, _, _)
count_repeats(P, tok, counter) ==
    IF peek_equals(P, tok)
    THEN LET m == match_token(P, tok) IN
         IF ~m.ok THEN m ELSE count_repeats(m.P, tok, counter + 1)
    ELSE Ok(counter, P)

\* the size loop of the `[` arm: while !self.match_token(RightBracket)? { ... }
RECURSIVE array_size_loop(_, _)
array_size_loop(P, size) ==
    IF peek_equals(P, "RightBracket")
    THEN LET m == match_token(P, "RightBracket") IN
         IF ~m.ok THEN m ELSE Ok(size, m.P)
    ELSE IF peek_equals(P, "Question")
    THEN LET q == Parser_advance(P) IN
         IF ~q.ok THEN q ELSE array_size_loop(q.P, <<>>)
    ELSE LET e == Call("expression", <<P, TRUE>>) IN
         IF ~e.ok THEN Panic(e.P) ELSE array_size_loop(e.P, <<e.v>>)

\* the tail shared by the `*`, `&`, `[` and `?` arms: the inner type must be Simple
InnerSimple(P, what) ==
    LET ty == Call("consume_type", <<P>>) IN
    IF ~ty.ok THEN ty ELSE
    IF ty.v.ty.t = "Simple" THEN Ok(ty.v, ty.P)
    ELSE Err(ParseError("InternalError", what, ty.v.start, ty.v.end), ty.P)

consume_type(P) ==
    IF at_end(P) THEN eof(P) ELSE
    IF ~Peek(P).ok THEN Err(ErrOf(Peek(P)), P) ELSE
    LET peek == Peek(P) IN
    CASE peek.node = "TypeIdentifier" ->
            Ok(SpannedType(peek.start, peek.end, SimpleType(peek.val)), Step(P))
      [] peek.node = "Identifier" ->
            LET e == Call("parse_expression", <<P, PrecAssignment, TRUE>>) IN
            IF ~e.ok THEN e ELSE
            LET identifier == user_identifier(e.P, e.v) IN
            IF ~identifier.ok THEN identifier ELSE
            Ok(SpannedType(e.v.start, e.v.end,
                   SimpleType([k |-> "UserDefinedType", file |-> identifier.v.file,
                               name |-> identifier.v.name])), e.P)
      [] peek.node \in {"Star", "Ampersand"} ->
            LET counter == count_repeats(Step(P), peek.node, 1) IN
            IF ~counter.ok THEN counter ELSE
            LET ty == InnerSimple(counter.P, "pointer or reference type") IN
            IF ~ty.ok THEN ty ELSE
            LET made == IF peek.node = "Star" THEN Pointer_new(ty.v.ty.s, counter.v)
                        ELSE Ref_new(ty.v.ty.s, counter.v) IN
            IF made = <<>> THEN Panic(ty.P)
            ELSE Ok(SpannedType(peek.start, ty.v.end, made[1]), ty.P)
      [] peek.node = "LeftBracket" ->
            LET size == array_size_loop(Step(P), <<>>) IN
            IF ~size.ok THEN size ELSE
            LET ty == InnerSimple(size.P, "array type") IN
            IF ~ty.ok THEN ty ELSE
            Ok(SpannedType(peek.start, ty.v.end,
                   [t |-> "Array", base |-> ty.v.ty.s, size |-> size.v]), ty.P)
      [] peek.node = "Question" ->
            LET ty == InnerSimple(Step(P), "nullable type") IN
            IF ~ty.ok THEN ty ELSE
            Ok(SpannedType(peek.start, ty.v.end,
                   [t |-> "Nullable", base |-> ty.v.ty.s]), ty.P)
      [] OTHER -> consume_error(P, peek, "type")

(***************************************************************************)
(* Statements and blocks.                                                  *)
(***************************************************************************)
error_statement(error) ==
    [st |-> "ExpressionStatement",
     expr |-> Expr("Error", error.start, error.end, [error |-> error])]

SyncKeywords == {"Type", "Fn", "If", "Let", "Return"}

RECURSIVE sync_loop(_, _)
sync_loop(P, previous) ==
    IF at_end(P) \/ ~Peek(P).ok THEN P
    ELSE IF previous.ok /\ previous.v.node = "Semicolon" THEN P
    ELSE IF Peek(P).node \in SyncKeywords THEN P
    ELSE LET next == Parser_advance(P) IN sync_loop(next.P, next)

sync(P) == LET previous == Parser_advance(P) IN sync_loop(previous.P, previous)

let_declaration(P) ==
    LET l == consume(P, "Let") IN
    IF ~l.ok THEN l ELSE
    LET name == consume_identifier(l.P) IN
    IF ~name.ok THEN name ELSE
    LET colon == match_token(name.P, "Colon") IN
    LET ty == IF colon.ok /\ colon.v
              THEN LET ct == Call("consume_type", <<colon.P>>) IN
                   IF ~ct.ok THEN ct ELSE Ok(<<ct.v>>, ct.P)
              ELSE Ok(<<>>, colon.P) IN
    IF ~ty.ok THEN ty ELSE
    LET eq == consume(ty.P, "Equals") IN
    IF ~eq.ok THEN eq ELSE
    LET value == Call("expression", <<eq.P, FALSE>>) IN
    IF ~value.ok THEN value ELSE
    Ok([st |-> "VariableDeclaration", name |-> name.v, value |-> value.v,
        eq |-> eq.v, ty |-> ty.v], value.P)

return_statement(P) ==
    LET r == consume(P, "Return") IN
    IF ~r.ok THEN r ELSE
    LET ret == IF peek_equals(r.P, "Semicolon") THEN Ok(<<>>, r.P)
               ELSE LET e == Call("expression", <<r.P, FALSE>>) IN
                    IF ~e.ok THEN e ELSE Ok(<<e.v>>, e.P) IN
    IF ~ret.ok THEN ret ELSE
    LET semi == consume(ret.P, "Semicolon") IN
    IF ~semi.ok THEN semi ELSE
    Ok([st |-> "ReturnStatement", expr |-> ret.v], semi.P)

while_statement(P) ==
    LET w == consume(P, "While") IN
    IF ~w.ok THEN w ELSE
    LET condition == Call("expression", <<w.P, TRUE>>) IN
    IF ~condition.ok THEN condition ELSE
    LET body == Call("block", <<condition.P>>) IN
    IF ~body.ok THEN body ELSE
    Ok([st |-> "WhileStatement", condition |-> condition.v, body |-> body.v], body.P)

delete_statement(P) ==
    LET d == consume(P, "Delete") IN
    IF ~d.ok THEN d ELSE
    LET e == Call("expression", <<d.P, FALSE>>) IN
    IF ~e.ok THEN e ELSE
    LET semi == consume(e.P, "Semicolon") IN
    IF ~semi.ok THEN semi ELSE
    Ok([st |-> "DeleteStatement", expr |-> e.v], semi.P)

if_statement(P) ==
    LET i == consume(P, "If") IN
    IF ~i.ok THEN i ELSE
    LET condition == Call("expression", <<i.P, TRUE>>) IN
    IF ~condition.ok THEN condition ELSE
    LET then_block == Call("block", <<condition.P>>) IN
    IF ~then_block.ok THEN then_block ELSE
    LET else_branch ==
        IF ~peek_equals(then_block.P, "Else") THEN Ok(<<>>, then_block.P) ELSE
        LET e == consume(then_block.P, "Else") IN
        IF ~e.ok THEN e ELSE
        IF peek_equals(e.P, "If")
        THEN LET else_if == Call("if_statement", <<e.P>>) IN
             IF ~else_if.ok THEN else_if
             ELSE Ok(<<[e |-> "IfStatement", stmt |-> else_if.v]>>, else_if.P)
        ELSE LET b == Call("block", <<e.P>>) IN
             IF ~b.ok THEN b ELSE Ok(<<[e |-> "Block", block |-> b.v]>>, b.P) IN
    IF ~else_branch.ok THEN else_branch ELSE
    Ok([st |-> "IfStatement", condition |-> condition.v, then_block |-> then_block.v,
        else_branch |-> else_branch.v], else_branch.P)

statement(P) ==
    IF ~at_end(P) /\ Peek(P).ok /\ Peek(P).node = "Let"
    THEN LET declaration == Call("let_declaration", <<P>>) IN
         IF ~declaration.ok THEN declaration ELSE
         LET semi == consume(declaration.P, "Semicolon") IN
         IF ~semi.ok THEN semi ELSE Ok(declaration.v, semi.P)
    ELSE IF ~at_end(P) /\ Peek(P).ok /\ Peek(P).node = "If" THEN Call("if_statement", <<P>>)
    ELSE IF ~at_end(P) /\ Peek(P).ok /\ Peek(P).node = "Return" THEN Call("return_statement", <<P>>)
    ELSE IF ~at_end(P) /\ Peek(P).ok /\ Peek(P).node = "While" THEN Call("while_statement", <<P>>)
    ELSE IF ~at_end(P) /\ Peek(P).ok /\ Peek(P).node = "Delete" THEN Call("delete_statement", <<P>>)
    ELSE LET e == Call("expression", <<P, FALSE>>) IN
         IF ~e.ok THEN e ELSE
         LET semi == consume(e.P, "Semicolon") IN
         IF ~semi.ok THEN semi ELSE
         Ok([st |-> "ExpressionStatement", expr |-> e.v], semi.P)

RECURSIVE block_loop(_, _)
block_loop(P, statements) ==
    IF at_end(P) \/ peek_equals(P, "RightBrace") THEN Ok(statements, P) ELSE
    LET s == Call("statement", <<P>>) IN
    IF s.panic THEN s
    ELSE IF s.ok THEN block_loop(s.P, Append(statements, s.v))
    ELSE block_loop(sync(Bump(s.P)), Append(statements, error_statement(s.v)))

block(P) ==
    LET open == consume(P, "LeftBrace") IN
    IF ~open.ok THEN open ELSE
    LET body == block_loop(open.P, <<>>) IN
    IF ~body.ok THEN body ELSE
    IF at_end(body.P) THEN Ok(body.v, body.P) ELSE
    LET close == consume(body.P, "RightBrace") IN
    IF ~close.ok THEN close ELSE Ok(body.v, close.P)

(***************************************************************************)
(* Top-level items.                                                        *)
(***************************************************************************)
RECURSIVE parameter_list_loop(_, _, _)
parameter_list_loop(P, is_external, parameters) ==
    IF peek_equals(P, "RightParen") THEN Ok([varargs |-> FALSE, parameters |-> parameters], P)
    ELSE IF peek_equals(P, "Varargs")
    THEN IF ~is_external THEN Panic(P) ELSE
         LET v == consume(P, "Varargs") IN
         IF ~v.ok THEN v ELSE
         Ok([varargs |-> TRUE,
             parameters |-> Append(parameters,
                 [name |-> [node |-> <<".", ".", ".">>, start |-> v.v.start, end |-> v.v.end],
                  ty   |-> SpannedType(v.v.start, v.v.end, SimpleType([k |-> "VarArgs"]))])],
            v.P)
    ELSE LET identifier == consume_identifier(P) IN
         IF ~identifier.ok THEN identifier ELSE
         LET colon == consume(identifier.P, "Colon") IN
         IF ~colon.ok THEN colon ELSE
         LET ty == Call("consume_type", <<colon.P>>) IN
         IF ~ty.ok THEN ty ELSE
         LET parameter == [name |-> identifier.v, ty |-> ty.v] IN
         IF peek_equals(ty.P, "RightParen")
         THEN parameter_list_loop(ty.P, is_external, Append(parameters, parameter))
         ELSE LET c == consume(ty.P, "Comma") IN
              IF ~c.ok THEN c ELSE
              parameter_list_loop(c.P, is_external, Append(parameters, parameter))

\* the varargs flag never set
parameter_list_no_varargs(P, is_external) ==
    LET open == consume(P, "LeftParen") IN
    IF ~open.ok THEN open ELSE
    LET list == parameter_list_loop(open.P, is_external, <<>>) IN
    IF ~list.ok THEN list ELSE
    LET close == consume(list.P, "RightParen") IN
    IF ~close.ok THEN close
    ELSE Ok([varargs |-> FALSE, parameters |-> list.v.parameters], close.P)

parameter_list(P, is_external) ==
    LET open == consume(P, "LeftParen") IN
    IF ~open.ok THEN open ELSE
    LET m == match_token(open.P, "RightParen") IN
    IF ~m.ok THEN m ELSE
    IF m.v THEN Ok([varargs |-> FALSE, parameters |-> <<>>], m.P) ELSE
    LET list == parameter_list_loop(m.P, is_external, <<>>) IN
    IF ~list.ok THEN list ELSE
    LET close == consume(list.P, "RightParen") IN
    IF ~close.ok THEN close ELSE Ok(list.v, close.P)

\* the token function_definition requires between the parameter list and
\* the return type
\* `:` in place of `=>`
ColonSeparator == "Colon"

ReturnTypeSeparator == "Arrow"

function_definition(P) ==
    LET is_external == peek_equals(P, "Extern") IN
    LET ext == IF is_external THEN consume(P, "Extern") ELSE Ok(<<>>, P) IN
    IF ~ext.ok THEN ext ELSE
    LET f == consume(ext.P, "Fn") IN
    IF ~f.ok THEN f ELSE
    LET name == consume_identifier(f.P) IN
    IF ~name.ok THEN name ELSE
    LET arguments == Call("parameter_list", <<name.P, is_external>>) IN
    IF ~arguments.ok THEN arguments ELSE
    LET sep == consume(arguments.P, ReturnTypeSeparator) IN
    IF ~sep.ok THEN sep ELSE
    LET return_type == Call("consume_type", <<sep.P>>) IN
    IF ~return_type.ok THEN return_type ELSE
    LET body == IF is_external
                THEN LET semi == consume(return_type.P, "Semicolon") IN
                     IF ~semi.ok THEN semi ELSE Ok(<<>>, semi.P)
                ELSE Call("block", <<return_type.P>>) IN
    IF ~body.ok THEN body ELSE
    Ok([tl |-> "FunctionDeclaration", name |-> name.v, arguments |-> arguments.v,
        body |-> body.v, return_type |-> return_type.v, is_external |-> is_external],
       body.P)

import_statement(P) ==
    LET i == consume(P, "Import") IN
    IF ~i.ok THEN i ELSE
    LET name == consume_string(i.P) IN
    IF ~name.ok THEN name ELSE
    LET semi == consume(name.P, "Semicolon") IN
    IF ~semi.ok THEN semi ELSE Ok([tl |-> "Import", name |-> name.v], semi.P)

RECURSIVE generic_parameters_loop(_, _)
generic_parameters_loop(P, generic_parameters) ==
    LET identifier == consume_identifier(P) IN
    IF ~identifier.ok THEN identifier ELSE
    IF at_end(identifier.P) \/ peek_equals(identifier.P, "Greater")
    THEN Ok(Append(generic_parameters, identifier.v), identifier.P) ELSE
    LET c == consume(identifier.P, "Comma") IN
    IF ~c.ok THEN c ELSE
    generic_parameters_loop(c.P, Append(generic_parameters, identifier.v))

consume_generic_parameters(P) ==
    LET open == consume(P, "Smaller") IN
    IF ~open.ok THEN open ELSE
    LET list == IF ~at_end(open.P) /\ ~peek_equals(open.P, "Greater")
                THEN generic_parameters_loop(open.P, <<>>)
                ELSE Ok(<<>>, open.P) IN
    IF ~list.ok THEN list ELSE
    LET close == consume(list.P, "Greater") IN
    IF ~close.ok THEN close ELSE Ok(list.v, close.P)

\* the `@name: Type` part of one iteration of struct_declaration's loop
struct_field(P, fields) ==
    IF ~peek_equals(P, "At") THEN Ok(fields, P) ELSE
    LET a == Parser_advance(P) IN
    IF ~a.ok THEN a ELSE
    LET field_name == consume_identifier(a.P) IN
    IF ~field_name.ok THEN field_name ELSE
    LET colon == consume(field_name.P, "Colon") IN
    IF ~colon.ok THEN colon ELSE
    LET field_type == Call("consume_type", <<colon.P>>) IN
    IF ~field_type.ok THEN field_type ELSE
    Ok(Append(fields, <<field_name.v, field_type.v>>), field_type.P)

\* the method part of one iteration of struct_declaration's loop
struct_method(P, methods) ==
    IF ~peek_equals(P, "Fn") THEN Ok(methods, P) ELSE
    LET m == Call("function_definition", <<P>>) IN
    IF ~m.ok THEN m ELSE Ok(Append(methods, m.v), m.P)

RECURSIVE struct_members_loop(_, _, _)
struct_members_loop(P, fields, methods) ==
    LET field == Call("struct_field", <<P, fields>>) IN
    IF ~field.ok THEN field ELSE
    LET method == Call("struct_method", <<field.P, methods>>) IN
    IF ~method.ok THEN method ELSE
    IF at_end(method.P) \/ peek_equals(method.P, "RightBrace")
    THEN Ok([fields |-> field.v, methods |-> method.v], method.P) ELSE
    LET semi == consume(method.P, "Semicolon") IN
    IF ~semi.ok THEN semi ELSE
    struct_members_loop(semi.P, field.v, method.v)

struct_declaration(P, name) ==
    LET s == consume(P, "Struct") IN
    IF ~s.ok THEN s ELSE
    LET generics == IF peek_equals(s.P, "Smaller") THEN Call("consume_generic_parameters", <<s.P>>)
                    ELSE Ok(<<>>, s.P) IN
    IF ~generics.ok THEN generics ELSE
    LET open == consume(generics.P, "LeftBrace") IN
    IF ~open.ok THEN open ELSE
    LET members == IF ~at_end(open.P) /\ ~peek_equals(open.P, "RightBrace")
                   THEN struct_members_loop(open.P, <<>>, <<>>)
                   ELSE Ok([fields |-> <<>>, methods |-> <<>>], open.P) IN
    IF ~members.ok THEN members ELSE
    LET close == consume(members.P, "RightBrace") IN
    IF ~close.ok THEN close ELSE
    Ok([tl |-> "TypeDeclaration",
        ty |-> [td |-> "StructDefinition", name |-> name,
                fields |-> members.v.fields, methods |-> members.v.methods]], close.P)

RECURSIVE enum_fields_loop(_, _, _)
enum_fields_loop(P, ty, fields) ==
    LET field_name == consume_identifier(P) IN
    IF ~field_name.ok THEN field_name ELSE
    IF at_end(field_name.P) \/ peek_equals(field_name.P, "RightBrace")
    THEN Ok(Append(fields, <<field_name.v, ty>>), field_name.P)
    ELSE enum_fields_loop(field_name.P, ty, Append(fields, <<field_name.v, ty>>))

enum_declaration(P, name) ==
    LET e == consume(P, "Enum") IN
    IF ~e.ok THEN e ELSE
    LET ty == IF ~peek_equals(e.P, "Colon")
              THEN Ok(SpannedType(0, 0, SimpleType([k |-> "Void"])), e.P) ELSE
              LET colon == consume(e.P, "Colon") IN
              IF ~colon.ok THEN colon ELSE Call("consume_type", <<colon.P>>) IN
    IF ~ty.ok THEN ty ELSE
    LET open == consume(ty.P, "LeftBrace") IN
    IF ~open.ok THEN open ELSE
    LET fields == IF ~at_end(open.P) /\ ~peek_equals(open.P, "RightBrace")
                  THEN enum_fields_loop(open.P, ty.v, <<>>)
                  ELSE Ok(<<>>, open.P) IN
    IF ~fields.ok THEN fields ELSE
    LET close == consume(fields.P, "RightBrace") IN
    IF ~close.ok THEN close ELSE
    Ok([tl |-> "TypeDeclaration",
        ty |-> [td |-> "EnumDefinition", name |-> name, fields |-> fields.v]], close.P)

type_alias_declaration(P, name) ==
    LET generic_parameters == Call("consume_generic_parameters", <<P>>) IN
    IF ~generic_parameters.ok THEN generic_parameters ELSE
    LET eq == consume(generic_parameters.P, "Equals") IN
    IF ~eq.ok THEN eq ELSE
    LET ty == Call("consume_type", <<eq.P>>) IN
    IF ~ty.ok THEN ty ELSE
    LET semi == consume(ty.P, "Semicolon") IN
    IF ~semi.ok THEN semi ELSE
    Ok([tl |-> "TypeDeclaration",
        ty |-> [td |-> "TypeAlias", name |-> name,
                generic_parameters |-> generic_parameters.v, ty |-> ty.v]], semi.P)

type_declaration_statement(P) ==
    LET t == consume(P, "Type") IN
    IF ~t.ok THEN t ELSE
    LET name == consume_identifier(t.P) IN
    IF ~name.ok THEN name ELSE
    IF peek_equals(name.P, "Smaller") THEN Call("type_alias_declaration", <<name.P, name.v>>)
    ELSE IF peek_equals(name.P, "Struct") THEN Call("struct_declaration", <<name.P, name.v>>)
    ELSE IF peek_equals(name.P, "Trait") THEN Panic(name.P)
    ELSE IF peek_equals(name.P, "Enum") THEN Call("enum_declaration", <<name.P, name.v>>)
    ELSE Err(ParseError("InternalError",
                 "tried to define something that does not belong to top level",
                 name.v.start, name.v.end), name.P)

top_level_declaration(P) ==
    IF peek_equals(P, "Import") THEN Call("import_statement", <<P>>)
    ELSE IF peek_equals(P, "Type") THEN Call("type_declaration_statement", <<P>>)
    ELSE Call("function_definition", <<P>>)

Call(f, a) ==
    CASE f = "parse_expression" -> parse_expression(a[1], a[2], a[3])
      [] f = "expression" -> expression(a[1], a[2])
      [] f = "prefix" -> prefix(a[1], a[2], a[3])
      [] f = "infix" -> infix(a[1], a[2], a[3], a[4])
      [] f = "consume_type" -> consume_type(a[1])
      [] f = "argument_list" -> argument_list(a[1], a[2])
      [] f = "initializer_list" -> initializer_list(a[1], a[2])
      [] f = "let_declaration" -> let_declaration(a[1])
      [] f = "return_statement" -> return_statement(a[1])
      [] f = "while_statement" -> while_statement(a[1])
      [] f = "delete_statement" -> delete_statement(a[1])
      [] f = "if_statement" -> if_statement(a[1])
      [] f = "statement" -> statement(a[1])
      [] f = "block" -> block(a[1])
      [] f = "parameter_list" -> parameter_list(a[1], a[2])
      [] f = "function_definition" -> function_definition(a[1])
      [] f = "import_statement" -> import_statement(a[1])
      [] f = "consume_generic_parameters" -> consume_generic_parameters(a[1])
      [] f = "struct_field" -> struct_field(a[1], a[2])
      [] f = "struct_method" -> struct_method(a[1], a[2])
      [] f = "struct_declaration" -> struct_declaration(a[1], a[2])
      [] f = "enum_declaration" -> enum_declaration(a[1], a[2])
      [] f = "type_alias_declaration" -> type_alias_declaration(a[1], a[2])
      [] f = "type_declaration_statement" -> type_declaration_statement(a[1])
      [] f = "top_level_declaration" -> top_level_declaration(a[1])

\* the re-synchronisation loop stopping at `fn` only
RECURSIVE parse_recover_to_fn(_)
parse_recover_to_fn(P) ==
    IF peek_equals(P, "Fn") \/ at_end(P) THEN Ok(<<>>, P)
    ELSE LET a == Parser_advance(P) IN
         IF ~a.ok THEN Panic(a.P) ELSE parse_recover_to_fn(a.P)

\* no re-synchronisation at all
parse_recover_nothing(P) == Ok(<<>>, P)

\* the re-synchronisation loop of parse(): skip to the next Fn / Type / end
\* of input; an Err item met on the way panics
RECURSIVE parse_recover(_)
parse_recover(P) ==
    IF peek_equals(P, "Fn") \/ peek_equals(P, "Type") \/ at_end(P) THEN Ok(<<>>, P)
    ELSE LET a == Parser_advance(P) IN
         IF ~a.ok THEN Panic(a.P) ELSE parse_recover(a.P)

(***************************************************************************)
(* The lexer as an iterator: one step is one call of Lexer::next().        *)
(***************************************************************************)
LexAlphabet == {"a", "1", " ", "=", ">", ".", "\"", "/", "\n"}

LexSources == UNION {[1..n -> LexAlphabet] : n \in 0..MaxLen}

\* no call of a type constructor in progress
NoCtor == [state |-> "none"]

\* no symbol table in use
NoSymtab == [state |-> "none"]

ParserIdle ==
    /\ tpos = 1
    /\ program = <<>>
    /\ error_count = 0
    /\ pstate = "new"

LexInit ==
    /\ src \in LexSources
    /\ lx = LexerNew
    /\ out = <<>>
    /\ lexdone = FALSE
    /\ ParserIdle
    /\ ctor = NoCtor
    /\ symtab = NoSymtab

LexNext ==
    /\ pstate = "new"
    /\ LET r == scan_token(src, lx)
       IN  /\ lx' = r.L
           /\ out' = IF r.some THEN Append(out, r.item) ELSE out
           /\ lexdone' = ~r.some
    /\ UNCHANGED <<src, tpos, program, error_count, pstate, ctor, symtab>>

LexSpec == LexInit /\ [][LexNext]_vars

\* the lexer driven to its end: the caller goes on calling next() as long as
\* a call changes anything
MaxLiveLen == 3

LiveAlphabet == {"a", " ", "=", ".", "\""}

LiveSources == UNION {[1..n -> LiveAlphabet] : n \in 0..MaxLiveLen}

LiveInit ==
    /\ src \in LiveSources
    /\ lx = LexerNew
    /\ out = <<>>
    /\ lexdone = FALSE
    /\ ParserIdle
    /\ ctor = NoCtor
    /\ symtab = NoSymtab

LexLiveSpec == LiveInit /\ [][LexNext]_vars /\ WF_vars(LexNext)

(***************************************************************************)
(* Reference notions for the lexer properties.                             *)
(***************************************************************************)
\* Display of a payload-free punctuation token (token.rs, impl Display)
PunctSpelling ==
    "Bang" :> <<"!">> @@ "Equals" :> <<"=">> @@ "Plus" :> <<"+">> @@
    "Minus" :> <<"-">> @@ "Star" :> <<"*">> @@ "Slash" :> <<"/">> @@
    "Percent" :> <<"%">> @@ "Smaller" :> <<"<">> @@ "Greater" :> <<">">> @@
    "Ampersand" :> <<"&">> @@ "Pipe" :> <<"|">> @@ "LeftParen" :> <<"(">> @@
    "RightParen" :> <<")">> @@ "LeftBrace" :> <<"{">> @@ "RightBrace" :> <<"}">> @@
    "LeftBracket" :> <<"[">> @@ "RightBracket" :> <<"]">> @@ "Colon" :> <<":">> @@
    "Semicolon" :> <<";">> @@ "Dot" :> <<".">> @@ "Comma" :> <<",">> @@
    "Question" :> <<"?">> @@ "At" :> <<"@">> @@ "Caret" :> <<"^">> @@
    "Varargs" :> <<".", ".", ".">> @@ "EqualsEquals" :> <<"=", "=">> @@
    "BangEquals" :> <<"!", "=">> @@ "SmallerEquals" :> <<"<", "=">> @@
    "GreaterEquals" :> <<">", "=">> @@ "AmpersandAmpersand" :> <<"&", "&">> @@
    "PipePipe" :> <<"|", "|">> @@ "PlusPlus" :> <<"+", "+">> @@
    "MinusMinus" :> <<"-", "-">> @@ "Arrow" :> <<"=", ">">>

\* the text of a token: its payload slice, or the spelling of its keyword
\* or punctuation
TokenText(item) ==
    IF item.node \in {"Identifier", "DecLiteral", "FloatLiteral", "StringLiteral", "Char"}
    THEN item.val
    ELSE IF item.node = "TypeIdentifier"
    THEN CHOOSE w \in DOMAIN KeywordTypes : KeywordTypes[w] = item.val
    ELSE IF \E w \in DOMAIN KeywordTokens : KeywordTokens[w] = item.node
    THEN CHOOSE w \in DOMAIN KeywordTokens : KeywordTokens[w] = item.node
    ELSE PunctSpelling[item.node]

\* the source with whitespace and `//` line comments removed (the text of
\* string literals is kept as it is)
RECURSIVE Strip(_, _)
Strip(s, mode) ==
    IF s = <<>> THEN <<>> ELSE
    LET c == Head(s) IN
    CASE mode = "comment" -> Strip(Tail(s), IF c = "\n" THEN "code" ELSE "comment")
      [] mode = "string"  -> <<c>> \o Strip(Tail(s), IF c = "\"" THEN "code" ELSE "string")
      [] OTHER ->
            IF c \in Whitespace THEN Strip(Tail(s), "code")
            ELSE IF c = "/" /\ Len(s) >= 2 /\ s[2] = "/" THEN Strip(Tail(s), "comment")
            ELSE <<c>> \o Strip(Tail(s), IF c = "\"" THEN "string" ELSE "code")

Unread == SubSeq(src, lx.cur, Len(src))

RECURSIVE SliceConcat(_)
SliceConcat(items) ==
    IF items = <<>> THEN [panic |-> FALSE, text |-> <<>>] ELSE
    LET first == Source_slice(src, items[1].start, items[1].end)
        rest  == SliceConcat(Tail(items))
    IN  IF first.panic \/ rest.panic THEN [panic |-> TRUE, text |-> <<>>]
        ELSE [panic |-> FALSE, text |-> first.text \o rest.text]

Last(s) == s[Len(s)]

\* C1: every Ok token's span is the inclusive byte range of exactly the
\* token's text, so that Source::slice(span) is the token's text, wherever
\* the token sits in the source (offset 0 included).
C1_SpanIsTokenText ==
    \A i \in 1..Len(out) :
        out[i].ok =>
            Source_slice(src, out[i].start, out[i].end)
                = [panic |-> FALSE, text |-> TokenText(out[i])]

\* C2: next() returns None only when the unread remainder of the source is
\* empty or only whitespace and line comments.
C2_NoneOnlyAtEnd == lexdone => Strip(Unread, "code") = <<>>

\* C3: `==` and `=>` consume exactly two characters; `=` followed by any
\* other character yields Equals and consumes only the `=`.
C3_EqualsPeek ==
    (~lexdone /\ out # <<>> /\ Last(out).ok) =>
        /\ Last(out).node \in {"EqualsEquals", "Arrow"} => pos(src, lx) = Last(out).start + 2
        /\ Last(out).node = "Equals" => pos(src, lx) = Last(out).start + 1

\* C4: for every legal input (one the lexer yields no Err for), the
\* concatenation of the source slices of the token spans, in order, is the
\* input with whitespace and line comments removed.
C4_SpansCoverInput ==
    (lexdone /\ \A i \in 1..Len(out) : out[i].ok) =>
        SliceConcat(out) = [panic |-> FALSE, text |-> Strip(src, "code")]

(***************************************************************************)
(* Program sources for the parser.  A source is written as a list of       *)
(* words; Join spells the words out and separates them by one blank.       *)
(***************************************************************************)
Spelling ==
    "fn" :> <<"f","n">> @@ "main" :> <<"m","a","i","n">> @@
    "argc" :> <<"a","r","g","c">> @@ "i32" :> <<"i","3","2">> @@
    "return" :> <<"r","e","t","u","r","n">> @@ "let" :> <<"l","e","t">> @@
    "if" :> <<"i","f">> @@ "type" :> <<"t","y","p","e">> @@
    "enum" :> <<"e","n","u","m">> @@ "as" :> <<"a","s">> @@
    "import" :> <<"i","m","p","o","r","t">> @@
    "while" :> <<"w","h","i","l","e">> @@ "new" :> <<"n","e","w">> @@
    "else" :> <<"e","l","s","e">> @@ "struct" :> <<"s","t","r","u","c","t">> @@
    "extern" :> <<"e","x","t","e","r","n">> @@ "trait" :> <<"t","r","a","i","t">> @@
    "..." :> <<".",".",".">> @@ "null" :> <<"n","u","l","l">> @@
    "42" :> <<"4","2">> @@ "1.5" :> <<"1",".","5">> @@
    "\"ab\"" :> <<"\"","a","b","\"">> @@ "'a'" :> <<"'","a","'">> @@ "**" :> <<"*","*">> @@ "Pair" :> <<"P","a","i","r">> @@
    "key" :> <<"k","e","y">> @@ "value" :> <<"v","a","l","u","e">> @@
    "=>" :> <<"=",">">> @@ "==" :> <<"=","=">> @@ "!=" :> <<"!","=">> @@
    "<=" :> <<"<","=">> @@ ">=" :> <<">","=">> @@ "&&" :> <<"&","&">> @@
    "||" :> <<"|","|">>

Spell(w) == IF w \in DOMAIN Spelling THEN Spelling[w] ELSE <<w>>

RECURSIVE Join(_)
Join(words) ==
    IF words = <<>> THEN <<>>
    ELSE IF Len(words) = 1 THEN Spell(words[1])
    ELSE Spell(words[1]) \o <<" ">> \o Join(Tail(words))

\* the words spelled out one after the other, blanks being words themselves
RECURSIVE Cat(_)
Cat(words) == IF words = <<>> THEN <<>> ELSE Spell(words[1]) \o Cat(Tail(words))

\* scenario S1 as the specification writes it, and with `=>`
SrcS1Colon ==
    Cat(<<"fn", " ", "main", "(", "argc", ":", " ", "i32", ")", ":", " ", "i32", " ",
          "{", " ", "return", " ", "0", ";", " ", "}">>)

SrcS1Arrow ==
    Cat(<<"fn", " ", "main", "(", "argc", ":", " ", "i32", ")", " ", "=>", " ", "i32", " ",
          "{", " ", "return", " ", "0", ";", " ", "}">>)

FnHead(name) == <<"fn", name, "(", ")", "=>", "i32", "{">>

\* fn f() => i32 { <body words> }
WrapBody(body) == FnHead("f") \o body \o <<"}">>

\* chains of operands and binary operators: a p b q c ...
MaxOperands == 3

BinaryOpWords ==
    {"+", "-", "*", "/", "%", "==", "!=", "<", "<=", ">", ">=", "&&", "||"}

ChainOpWords == BinaryOpWords \cup {"="}

OperandWords == <<"a", "b", "c", "d", "e", "g", "h">>

RECURSIVE ChainWords(_, _)
ChainWords(ops, n) ==
    IF n > Len(ops) THEN <<OperandWords[n]>>
    ELSE <<OperandWords[n], ops[n]>> \o ChainWords(ops, n + 1)

ChainStatement(ops) == WrapBody(ChainWords(ops, 1) \o <<";">>)

ChainPrograms ==
    {ChainStatement(ops) : ops \in UNION {[1..n -> ChainOpWords] : n \in 1..MaxOperands - 1}}

CastPlus == WrapBody(<<"a", "as", "i32", "+", "b", ";">>)

CastPrograms == {CastPlus,
                 WrapBody(<<"a", "+", "b", "as", "i32", ";">>),
                 WrapBody(<<"a", "as", "i32", "==", "b", ";">>)}

\* a body of return statements with one stray `@` among its tokens
MaxStatements == 3

RECURSIVE ReturnWords(_, _)
ReturnWords(j, n) ==
    IF j > n THEN <<>> ELSE <<"return", OperandWords[j], ";">> \o ReturnWords(j + 1, n)

InsertAt(words, k, w) == SubSeq(words, 1, k) \o <<w>> \o SubSeq(words, k + 1, Len(words))

StrayAt(n, k) == WrapBody(InsertAt(ReturnWords(1, n), k, "@"))

StrayPrograms == UNION {{StrayAt(n, k) : k \in 0..3 * n} : n \in 1..MaxStatements}

\* sources with a character the lexer rejects
LexErrorPrograms ==
    {<<"$">>, <<"fn", "$">>, <<"x", "$">>,
     <<"x", "$", "fn", "g", "(", ")", "=>", "i32", "{", "}">>,
     WrapBody(<<"return", "$", ";">>)}

\* a failing top-level item followed by a well-formed one (or by nothing)
BadItems ==
    {<<"x">>, <<"fn">>, <<"fn", "f", "(">>, <<"fn", "f", "(", ")", "i32", "{", "}">>,
     <<"type", "T">>, <<"type", "T", ";", "x">>, <<"import", "x", ";">>,
     <<"fn", "f", "(", "a", "b", ")", "=>", "i32", "{", "}">>, <<"}", "}">>,
     <<"fn", ":", "x", ";">>}

GoodFn == FnHead("g") \o <<"return", "0", ";", "}">>

GoodEnum == <<"type", "T", "enum", "{", "a", "b", "}">>

GoodItems == {GoodFn, GoodEnum, <<>>}

RecoveryPrograms ==
    {bad \o good : bad \in BadItems, good \in GoodItems}
    \cup {GoodFn \o bad \o good : bad \in BadItems, good \in GoodItems}

\* conditions of `if` and `while`, one of each expression form, with the
\* tree each one stands for
Id(name) == <<"Identifier", <<name>>>>

CondTable ==
    <<"a">> :> Id("a") @@
    <<"a", ".", "b">> :> <<"Access", Id("a"), <<"b">>>> @@
    <<"-", "a">> :> <<"Negate", Id("a")>> @@
    <<"!", "a">> :> <<"BoolNegate", Id("a")>> @@
    <<"*", "a">> :> <<"Dereference", Id("a")>> @@
    <<"&", "a">> :> <<"Reference", Id("a")>> @@
    <<"a", "+", "b">> :> <<"Binary", Id("a"), "Plus", Id("b")>> @@
    <<"a", "<", "b">> :> <<"BoolBinary", Id("a"), "Smaller", Id("b")>> @@
    <<"a", "==", "b">> :> <<"BoolBinary", Id("a"), "EqualsEquals", Id("b")>> @@
    <<"a", "as", "i32">> :>
        <<"Cast", Id("a"), SimpleType([k |-> "Integer", size |-> 32, signed |-> TRUE])>> @@
    <<"new", "a">> :> <<"New", Id("a")>> @@
    <<"f", "(", ")">> :> <<"Call", SourceName, Id("f"), <<>>>> @@
    <<"f", "(", "a", ")">> :> <<"Call", SourceName, Id("f"), <<Id("a")>>>> @@
    <<"(", "a", ")">> :> Id("a")

CondBlock == <<"{", "return", "c", ";", "}">>

CondProgram(kw, form) == WrapBody(<<kw>> \o form \o CondBlock)

CondPrograms == {CondProgram(kw, form) : kw \in {"if", "while"}, form \in DOMAIN CondTable}

LetStruct == WrapBody(<<"let", "x", "=", "P", "{", "f", ":", "1", "}", ";">>)

\* call statements: every callee shape applied to every argument list
MaxArgs == 2

CalleeTable ==
    <<"m", ".", "f">> :> <<<<"m">>, Id("f")>> @@
    <<"f">> :> <<SourceName, Id("f")>> @@
    <<"a", ".", "b", ".", "c">> :>
        <<SourceName, <<"Access", <<"Access", Id("a"), <<"b">>>>, <<"c">>>>>> @@
    <<"f", "(", ")">> :> <<SourceName, <<"Call", SourceName, Id("f"), <<>>>>>> @@
    <<"(", "f", ")">> :> <<SourceName, Id("f")>>

ArgLists == UNION {[1..n -> {"x", "y", "z"}] : n \in 0..MaxArgs}

RECURSIVE CommaSeparated(_)
CommaSeparated(ws) ==
    IF Len(ws) = 0 THEN <<>>
    ELSE IF Len(ws) = 1 THEN ws
    ELSE <<Head(ws), ",">> \o CommaSeparated(Tail(ws))

CallProgram(callee, args) ==
    WrapBody(callee \o <<"(">> \o CommaSeparated(args) \o <<")", ";">>)

CallPrograms == {CallProgram(callee, args) : callee \in DOMAIN CalleeTable, args \in ArgLists}

\* function heads: every list of up to MaxParams named parameters, with and
\* without `extern`, with and without a final `...`; and a `...` that is not
\* the last parameter
MaxParams == 2

ParamLists == UNION {[1..n -> {"a", "b"} \X {"i32", "P"}] : n \in 0..MaxParams}

RECURSIVE ParamWords(_, _)
ParamWords(ps, dots) ==
    IF Len(ps) = 0 THEN (IF dots THEN <<"...">> ELSE <<>>)
    ELSE <<Head(ps)[1], ":", Head(ps)[2]>>
         \o (IF Len(ps) > 1 \/ dots THEN <<",">> ELSE <<>>)
         \o ParamWords(Tail(ps), dots)

ExternProgram(ps, dots) ==
    <<"extern", "fn", "p", "(">> \o ParamWords(ps, dots) \o <<")", "=>", "i32", ";">>

PlainProgram(ps, dots) ==
    <<"fn", "p", "(">> \o ParamWords(ps, dots) \o <<")", "=>", "i32", "{", "}">>

DotsFirstProgram(ps) ==
    <<"extern", "fn", "p", "(", "...", ",">> \o ParamWords(ps, FALSE)
        \o <<")", "=>", "i32", ";">>

ParameterPrograms ==
    {ExternProgram(ps, dots) : ps \in ParamLists, dots \in BOOLEAN}
    \cup {PlainProgram(ps, dots) : ps \in ParamLists, dots \in BOOLEAN}
    \cup {DotsFirstProgram(ps) : ps \in ParamLists}

\* type Pair struct<K, V> { @key: K; @value: V; }
PairStruct ==
    <<"type", "Pair", "struct", "<", "K", ",", "V", ">", "{",
      "@", "key", ":", "K", ";", "@", "value", ":", "V", ";", "}">>

\* trait declarations, alone, before and after a well-formed function
TraitItems == {<<"type", "T", "trait">>, <<"type", "T", "trait", "{", "}">>}

TraitPrograms ==
    {tr \o good : tr \in TraitItems, good \in {<<>>, GoodFn}}
    \cup {GoodFn \o tr : tr \in TraitItems}

\* a block whose last statement fails, followed by a well-formed function
FailingTails ==
    {<<"@">>, <<"return", "a", ";", "@">>, <<"a", "b">>, <<"return", "a">>,
     <<"@", ";">>, <<"a", "b", ";">>, <<"let", "x", ";">>}

BlockRecoveryProgram(tail) == WrapBody(tail) \o GoodFn

BlockRecoveryPrograms == {BlockRecoveryProgram(tail) : tail \in FailingTails}

\* let x: <marks> T = 1;  with one or two `*` or `&` written without a blank
MarkWord(mark, k) == IF k = 1 THEN mark ELSE IF mark = "*" THEN "**" ELSE "&&"

TypedLet(typewords) == WrapBody(<<"let", "x", ":">> \o typewords \o <<"=", "1", ";">>)

MarkedTypePrograms ==
    {TypedLet(<<MarkWord(mark, k), base>>) :
        mark \in {"*", "&"}, k \in {1, 2}, base \in {"i32", "P"}}

\* array types: let x: [size]i32 = 1;  with a size that parses, a size that
\* does not, a lexical error as size, and the input ending inside the brackets
GoodSizes == {<<"3">>, <<"?">>, <<"n">>, <<"n", "+", "1">>}

BadSizes == {<<"@">>, <<"$">>, <<"3", "+">>}

ArrayLet(size) == TypedLet(<<"[">> \o size \o <<"]", "i32">>)

CutInBrackets == {FnHead("f") \o <<"let", "x", ":", "[">>,
                  FnHead("f") \o <<"let", "x", ":", "[", "3", "+">>}

ArrayErrorPrograms == {ArrayLet(size) \o GoodFn : size \in BadSizes} \cup CutInBrackets

ArrayPrograms == {ArrayLet(size) : size \in GoodSizes} \cup ArrayErrorPrograms

\* return <literal>;  for each literal form, with the kind it stands for
LiteralTable ==
    "null" :> "NullLiteral" @@ "42" :> "DecLiteral" @@ "1.5" :> "FloatLiteral" @@
    "\"ab\"" :> "StringLiteral" @@ "'a'" :> "Char"

LiteralProgram(lit) == WrapBody(<<"return", lit, ";">>)

LiteralPrograms == {LiteralProgram(lit) : lit \in DOMAIN LiteralTable}

\* function bodies cut before their closing `}`
OpenBodies == {<<>>, <<"return", "0", ";">>, <<"return", "0", ";", "return", "a", ";">>}

OpenProgram(body) == FnHead("f") \o body

OpenPrograms == {OpenProgram(body) : body \in OpenBodies}

\* casts to a user-named type, alone and followed by a binary operator
UserTypeWords == {<<"T">>, <<"m", ".", "T">>}

CastTails == {<<>>, <<"+", "b">>, <<"*", "b">>, <<"==", "b">>}

UserCast(ty, tail) == WrapBody(<<"a", "as">> \o ty \o tail \o <<";">>)

UserCastPrograms == {UserCast(ty, tail) : ty \in UserTypeWords, tail \in CastTails}

\* a failing top-level item followed by a well-formed extern declaration
GoodExtern == <<"extern", "fn", "p", "(", "a", ":", "i32", ")", "=>", "i32", ";">>

ExternRecoveryPrograms == {bad \o GoodExtern : bad \in BadItems} \cup {GoodExtern \o GoodFn}

\* failing statements inside nested blocks, and a failing statement whose
\* block holds a failed statement of its own
NestedBodies ==
    {<<"if", "a", "{", "@", ";", "}", "return", "b", ";">>,
     <<"while", "a", "{", "if", "b", "{", "@", ";", "}", "a", "b", ";", "}">>,
     <<"if", "a", "{", "}", "else", "{", "let", "x", ";", "}">>,
     <<"if", "a", "{", "}", "else", "if", "b", "{", "@", ";", "@", ";", "}">>,
     <<"if", "a", "{", "@", ";", "}", "else", "@", ";">>,
     <<"let", "x", ":", "a", "+", "b", "=", "1", ";">>,
     <<"if", "a", "{", "return", "b", ";", "}">>}

NestedPrograms == {WrapBody(body) : body \in NestedBodies}

ProgramWords ==
    ChainPrograms \cup CastPrograms \cup StrayPrograms \cup LexErrorPrograms
    \cup RecoveryPrograms \cup CondPrograms \cup {LetStruct}
    \cup CallPrograms \cup ParameterPrograms \cup {PairStruct}
    \cup TraitPrograms \cup BlockRecoveryPrograms \cup MarkedTypePrograms
    \cup ArrayPrograms \cup LiteralPrograms \cup OpenPrograms
    \cup UserCastPrograms \cup ExternRecoveryPrograms \cup NestedPrograms

ProgramSources == {SrcS1Colon, SrcS1Arrow} \cup {Join(w) : w \in ProgramWords}

Init ==
    /\ src \in ProgramSources
    /\ lx = LexerNew
    /\ out = <<>>
    /\ lexdone = FALSE
    /\ ParserIdle
    /\ ctor = NoCtor
    /\ symtab = NoSymtab

(***************************************************************************)
(* Parser::parse(): one step is one iteration of its top-level loop.       *)
(***************************************************************************)
parse_skip(recovered, error) ==
    [state |-> IF recovered.panic THEN "panic" ELSE "run",
     P |-> recovered.P,
     pushed |-> <<[tl |-> "Error", error |-> error]>>]

\* a failed item not counted
parse_iteration_uncounted(declaration) ==
    IF declaration.panic THEN [state |-> "panic", P |-> declaration.P, pushed |-> <<>>]
    ELSE IF declaration.ok
    THEN [state |-> "run", P |-> declaration.P, pushed |-> <<declaration.v>>]
    ELSE parse_skip(parse_recover(declaration.P), declaration.v)

parse_iteration(declaration) ==
    IF declaration.panic
    THEN [state |-> "panic", P |-> declaration.P, pushed |-> <<>>]
    ELSE IF declaration.ok
    THEN [state |-> "run", P |-> declaration.P, pushed |-> <<declaration.v>>]
    ELSE parse_skip(parse_recover(Bump(declaration.P)), declaration.v)

Continue(iteration) ==
    /\ pstate' = iteration.state
    /\ tpos' = iteration.P.i
    /\ error_count' = iteration.P.ec
    /\ program' = program \o iteration.pushed

ParseTopLevel ==
    /\ lexdone
    /\ pstate \in {"new", "run"}
    /\ ~at_end([i |-> tpos, ec |-> error_count])
    /\ Continue(parse_iteration(
            Call("top_level_declaration", <<[i |-> tpos, ec |-> error_count]>>)))
    /\ UNCHANGED <<src, lx, out, lexdone, ctor, symtab>>

ParseReturn ==
    /\ lexdone
    /\ pstate \in {"new", "run"}
    /\ at_end([i |-> tpos, ec |-> error_count])
    /\ pstate' = "done"
    /\ UNCHANGED <<src, lx, out, lexdone, tpos, program, error_count, ctor, symtab>>

Next == LexNext \/ ParseTopLevel \/ ParseReturn

Spec == Init /\ [][Next]_vars

(***************************************************************************)
(* The constructors of the complex types, called on their own: one step    *)
(* is one call of Pointer::new or Ref::new.                                *)
(***************************************************************************)
MaxDepth == 4

SimpleBases ==
    {KeywordTypes[w] : w \in DOMAIN KeywordTypes}
    \cup {[k |-> "UserDefinedType", file |-> SourceName, name |-> <<"P">>]}

CtorCalls ==
    {[state |-> "call", kind |-> kind, base |-> base, size |-> size] :
        kind \in {"Pointer", "Ref"}, base \in SimpleBases, size \in 0..MaxDepth}

TypeInit ==
    /\ src = <<>>
    /\ lx = LexerNew
    /\ out = <<>>
    /\ lexdone = FALSE
    /\ ParserIdle
    /\ ctor \in CtorCalls
    /\ symtab = NoSymtab

\* the call returns the value made, or panics
Constructed(call, made) ==
    IF made = <<>>
    THEN [state |-> "panic", kind |-> call.kind, base |-> call.base, size |-> call.size]
    ELSE [state |-> "made", kind |-> call.kind, base |-> call.base, size |-> call.size,
          value |-> made[1]]

PointerNew ==
    /\ ctor.state = "call"
    /\ ctor.kind = "Pointer"
    /\ ctor' = Constructed(ctor, Pointer_new(ctor.base, ctor.size))
    /\ UNCHANGED <<src, lx, out, lexdone, tpos, program, error_count, pstate, symtab>>

RefNew ==
    /\ ctor.state = "call"
    /\ ctor.kind = "Ref"
    /\ ctor' = Constructed(ctor, Ref_new(ctor.base, ctor.size))
    /\ UNCHANGED <<src, lx, out, lexdone, tpos, program, error_count, pstate, symtab>>

TypeNext == PointerNew \/ RefNew

TypeSpec == TypeInit /\ [][TypeNext]_vars

(***************************************************************************)
(* The symbol table (semantic/symtable.rs): a stack of scopes, each a map  *)
(* from names to symbols.  One step is one call of enter_scope,            *)
(* exit_scope, bind or lookup.                                             *)
(***************************************************************************)
MaxScopes == 3

SymNames == {"x", "y"}

SymTypes == {SimpleType(KeywordTypes[<<"i","3","2">>]), SimpleType(KeywordTypes[<<"b","o","o","l">>])}

SymSpan == [start |-> 0, end |-> 0]

\* HashMap::new, HashMap::get and HashMap::insert
HashMap_new == [n \in {} |-> <<>>]

HashMap_get(map, name) == IF name \in DOMAIN map THEN <<map[name]>> ELSE <<>>

HashMap_insert(map, name, value) ==
    [n \in DOMAIN map \cup {name} |-> IF n = name THEN value ELSE map[n]]

Symbol_new(name, ty, kind) == [ty |-> ty, kind |-> kind, name |-> name]

SymbolTable_new == <<HashMap_new>>

is_in_global_scope(scopes) == Len(scopes) <= 1

enter_scope(scopes) == Append(scopes, HashMap_new)

\* exit_scope panics in the global scope
exit_scope(scopes) ==
    IF is_in_global_scope(scopes) THEN [panic |-> TRUE, scopes |-> scopes]
    ELSE [panic |-> FALSE, scopes |-> SubSeq(scopes, 1, Len(scopes) - 1)]

bind(scopes, name, span, ty, is_parameter) ==
    LET global == is_in_global_scope(scopes)
        kind   == IF global THEN "Global" ELSE IF is_parameter THEN "Parameter" ELSE "Local"
        symbol == [node |-> Symbol_new(name, ty, kind), start |-> span.start, end |-> span.end]
    IN  [scopes EXCEPT ![Len(scopes)] = HashMap_insert(@, name, symbol)]

\* for scope in self.scopes.iter().rev(): scope i and then the ones below
RECURSIVE lookup_from(_, _, _)
lookup_from(scopes, i, name) ==
    IF i = 0 THEN <<>>
    ELSE LET symbol == HashMap_get(scopes[i], name) IN
         IF symbol = <<>> THEN symbol ELSE lookup_from(scopes, i - 1, name)

lookup(scopes, name) == lookup_from(scopes, Len(scopes), name)

SymInit ==
    /\ src = <<>>
    /\ lx = LexerNew
    /\ out = <<>>
    /\ lexdone = FALSE
    /\ ParserIdle
    /\ ctor = NoCtor
    /\ symtab = [state |-> "ready", scopes |-> SymbolTable_new, looked |-> <<>>]

SymUnchanged == UNCHANGED <<src, lx, out, lexdone, tpos, program, error_count, pstate, ctor>>

EnterScope ==
    /\ symtab.state = "ready"
    /\ Len(symtab.scopes) < MaxScopes
    /\ symtab' = [symtab EXCEPT !.scopes = enter_scope(@), !.looked = <<>>]
    /\ SymUnchanged

ExitScope ==
    /\ symtab.state = "ready"
    /\ LET r == exit_scope(symtab.scopes)
       IN  symtab' = [state |-> IF r.panic THEN "panic" ELSE "ready",
                      scopes |-> r.scopes, looked |-> <<>>]
    /\ SymUnchanged

Bind ==
    /\ symtab.state = "ready"
    /\ \E name \in SymNames, ty \in SymTypes, is_parameter \in BOOLEAN :
            symtab' = [symtab EXCEPT !.scopes = bind(@, name, SymSpan, ty, is_parameter),
                                     !.looked = <<>>]
    /\ SymUnchanged

\* looked: the name of the last call of lookup and what it returned
Lookup ==
    /\ symtab.state = "ready"
    /\ \E name \in SymNames :
            symtab' = [symtab EXCEPT !.looked = <<name, lookup(symtab.scopes, name)>>]
    /\ SymUnchanged

SymNext == EnterScope \/ ExitScope \/ Bind \/ Lookup

SymSpec == SymInit /\ [][SymNext]_vars

(***************************************************************************)
(* Reference notions for the parser properties.                            *)
(***************************************************************************)
Done == pstate = "done"

NoLexErrors == \A i \in 1..Len(out) : out[i].ok

I32 == SimpleType([k |-> "Integer", size |-> 32, signed |-> TRUE])

\* an expression without its spans and operator tokens
RECURSIVE Shape(_)
Shape(e) ==
    CASE e.kind = "Identifier" -> <<"Identifier", e.name>>
      [] e.kind \in {"Binary", "BoolBinary"} ->
            <<e.kind, Shape(e.left), e.op.node, Shape(e.right)>>
      [] e.kind = "Cast" -> <<"Cast", Shape(e.expr), e.ty.ty>>
      [] e.kind = "Assignment" -> <<"Assignment", Shape(e.left), Shape(e.value)>>
      [] e.kind \in LiteralKinds -> <<e.kind, e.lit>>
      [] e.kind = "Access" -> <<"Access", Shape(e.left), e.identifier.node>>
      [] e.kind \in {"Negate", "BoolNegate", "Dereference", "Reference", "New"} ->
            <<e.kind, Shape(e.inner)>>
      [] e.kind = "Call" ->
            <<"Call", e.module, Shape(e.callee),
              [i \in 1..Len(e.arguments) |-> Shape(e.arguments[i])]>>
      [] e.kind = "StructInitialization" ->
            <<"StructInitialization", e.identifier.node,
              [i \in 1..Len(e.fields) |-> <<e.fields[i][1].node, Shape(e.fields[i][2])>>]>>
      [] OTHER -> <<e.kind>>

Ident(name) == <<"Identifier", <<name>>>>

IsReturnOf(s, shape) ==
    s.st = "ReturnStatement" /\ Len(s.expr) = 1 /\ Shape(s.expr[1]) = shape

IsErrorStatement(s) == s.st = "ExpressionStatement" /\ s.expr.kind = "Error"

\* the item of scenario S1
S1Accepted ==
    /\ Len(program) = 1
    /\ program[1].tl = "FunctionDeclaration"
    /\ program[1].name.node = <<"m", "a", "i", "n">>
    /\ program[1].is_external = FALSE
    /\ Len(program[1].arguments.parameters) = 1
    /\ program[1].arguments.parameters[1].name.node = <<"a", "r", "g", "c">>
    /\ program[1].arguments.parameters[1].ty.ty = I32
    /\ program[1].return_type.ty = I32
    /\ Len(program[1].body) = 1
    /\ IsReturnOf(program[1].body[1], <<"DecLiteral", <<"0">>>>)
    /\ error_count = 0

\* C5 as the specification states it: the S1 source with `:` before the
\* return type is accepted as one FunctionDeclaration, error_count = 0.
C5_S1WithColon == (Done /\ src = SrcS1Colon) => S1Accepted

\* C5 (amended): a function declaration written
\* `[extern] fn NAME ParameterList "=>" Type Body` is accepted: the S1 source
\* with `=>` before the return type parses to exactly one FunctionDeclaration
\* main(argc: i32) returning i32 with body [Return(DecLiteral 0)], no Error
\* node and error_count = 0.
C5_S1WithArrow == (Done /\ src = SrcS1Arrow) => S1Accepted

C5_Witness == Done /\ src = SrcS1Arrow /\ Len(program) = 1 /\ tpos = Len(out) + 1

\* the operands of the return statements that start after the stray `@`
\* put at token offset k of a body of n return statements
RECURSIVE Following(_, _, _)
Following(j, n, k) ==
    IF j > n THEN <<>>
    ELSE (IF 3 * (j - 1) >= k THEN <<OperandWords[j]>> ELSE <<>>) \o Following(j + 1, n, k)

RECURSIVE Returned(_)
Returned(body) ==
    IF body = <<>> THEN <<>>
    ELSE (IF body[1].st = "ReturnStatement" /\ Len(body[1].expr) = 1
             /\ body[1].expr[1].kind = "Identifier"
          THEN body[1].expr[1].name ELSE <<>>) \o Returned(Tail(body))

IsSuffix(s, whole) ==
    Len(s) <= Len(whole) /\ SubSeq(whole, Len(whole) - Len(s) + 1, Len(whole)) = s

\* C6: a single stray `@` anywhere inside a well-formed function body gives
\* exactly one Error sentinel statement in the block, every well-formed
\* statement after the `@` is still in the block, in order, and
\* error_count >= 1.
C6_StrayAtRecovery ==
    Done =>
        \A n \in 1..MaxStatements : \A k \in 0..3 * n :
            src = Join(StrayAt(n, k)) =>
                /\ Len(program) = 1
                /\ program[1].tl = "FunctionDeclaration"
                /\ Cardinality({i \in 1..Len(program[1].body) :
                                    IsErrorStatement(program[1].body[i])}) = 1
                /\ IsSuffix(Following(1, n, k), Returned(program[1].body))
                /\ error_count >= 1

LexErrorSources == {Join(w) : w \in LexErrorPrograms}

\* C7: a lexical error met while a top-level item is parsed, or while
\* parse() skips tokens to re-synchronise, never aborts the parser.
C7_NoAbortOnLexError == src \in LexErrorSources => pstate # "panic"

IsGoodFn(item) ==
    /\ item.tl = "FunctionDeclaration"
    /\ item.name.node = <<"g">>
    /\ item.is_external = FALSE
    /\ item.arguments = [varargs |-> FALSE, parameters |-> <<>>]
    /\ item.return_type.ty = I32
    /\ Len(item.body) = 1
    /\ IsReturnOf(item.body[1], <<"DecLiteral", <<"0">>>>)

IsGoodEnum(item) ==
    /\ item.tl = "TypeDeclaration"
    /\ item.ty.td = "EnumDefinition"
    /\ item.ty.name.node = <<"T">>
    /\ Len(item.ty.fields) = 2
    /\ item.ty.fields[1][1].node = <<"a">>
    /\ item.ty.fields[2][1].node = <<"b">>

IsGood(good, items) ==
    IF good = <<>> THEN items = <<>>
    ELSE /\ Len(items) = 1
         /\ IF good = GoodFn THEN IsGoodFn(items[1]) ELSE IsGoodEnum(items[1])

\* the first token at or after i that is `fn` or `type`, or the end of input
NextAnchor(i) ==
    CHOOSE j \in i..Len(out) + 1 :
        /\ j <= Len(out) => out[j].node \in {"Fn", "Type"}
        /\ \A m \in i..j - 1 : out[m].node \notin {"Fn", "Type"}

TopLevelFails ==
    LET P == [i |-> tpos, ec |-> error_count] IN
    /\ lexdone /\ pstate \in {"new", "run"} /\ ~at_end(P) /\ NoLexErrors
    /\ ~top_level_declaration(P).ok
    /\ ~top_level_declaration(P).panic

RecoveredIntact ==
    Done =>
        \A bad \in BadItems : \A good \in GoodItems :
            /\ src = Join(bad \o good) =>
                /\ Len(program) >= 1
                /\ program[1].tl = "Error"
                /\ IsGood(good, Tail(program))
            /\ src = Join(GoodFn \o bad \o good) =>
                /\ Len(program) >= 2
                /\ IsGoodFn(program[1])
                /\ program[2].tl = "Error"
                /\ IsGood(good, Tail(Tail(program)))

\* C8: when a top-level item fails on a token stream without lexical errors,
\* parse() appends exactly one TopLevel::Error for it, increments
\* error_count, discards the tokens up to but not including the next `fn` or
\* `type` token (or to the end of input) and resumes there, so that a
\* well-formed item starting at that token is parsed intact.
C8_TopLevelRecovery ==
    /\ [][TopLevelFails =>
            LET failed == top_level_declaration([i |-> tpos, ec |-> error_count]) IN
            /\ program' = Append(program, [tl |-> "Error", error |-> failed.v])
            /\ error_count' > error_count
            /\ tpos' = NextAnchor(failed.P.i)
            /\ pstate' = "run"]_vars
    /\ []RecoveredIntact

C8_Witness ==
    /\ Done /\ NoLexErrors
    /\ src = Join(<<"fn", "f", "(", "a", "b", ")", "=>", "i32", "{", "}">> \o GoodFn)
    /\ Len(program) = 2
    /\ program[1].tl = "Error"
    /\ IsGoodFn(program[2])

(***************************************************************************)
(* Reference parse of an operator chain.                                   *)
(***************************************************************************)
\* the binding strength the specification gives to a binary operator
SpecLevel(node) ==
    CASE node \in {"Star", "Slash", "Percent"} -> 5
      [] node \in {"Plus", "Minus"} -> 4
      [] node \in {"Smaller", "SmallerEquals", "Greater", "GreaterEquals"} -> 3
      [] node \in {"EqualsEquals", "BangEquals"} -> 2
      [] node \in {"AmpersandAmpersand", "PipePipe"} -> 1
      [] OTHER -> 0

BinaryKind(node) == IF node \in ArithOperators THEN "Binary" ELSE "BoolBinary"

\* the tree of operands[1] ops[1] operands[2] ...: split at the rightmost
\* operator of the weakest level
RECURSIVE RefTree(_, _)
RefTree(operands, ops) ==
    IF ops = <<>> THEN <<"Identifier", operands[1]>> ELSE
    LET k == CHOOSE k \in 1..Len(ops) :
                /\ \A j \in 1..Len(ops) : SpecLevel(ops[k]) <= SpecLevel(ops[j])
                /\ \A j \in k + 1..Len(ops) : SpecLevel(ops[k]) < SpecLevel(ops[j])
    IN  <<BinaryKind(ops[k]),
          RefTree(SubSeq(operands, 1, k), SubSeq(ops, 1, k - 1)),
          ops[k],
          RefTree(SubSeq(operands, k + 1, Len(operands)), SubSeq(ops, k + 1, Len(ops)))>>

\* ((a p b) q c) ...
RECURSIVE LeftNest(_, _)
LeftNest(operands, ops) ==
    IF ops = <<>> THEN <<"Identifier", operands[1]>> ELSE
    <<BinaryKind(Last(ops)),
      LeftNest(SubSeq(operands, 1, Len(ops)), SubSeq(ops, 1, Len(ops) - 1)),
      Last(ops),
      <<"Identifier", Last(operands)>>>>

\* a = (b = (c ...)), each side of an `=` nested to the left
RECURSIVE RightAssign(_, _)
RightAssign(operands, ops) ==
    IF \A i \in 1..Len(ops) : ops[i] # "Equals" THEN LeftNest(operands, ops) ELSE
    LET k == CHOOSE k \in 1..Len(ops) :
                ops[k] = "Equals" /\ \A j \in 1..k - 1 : ops[j] # "Equals"
    IN  <<"Assignment",
          LeftNest(SubSeq(operands, 1, k), SubSeq(ops, 1, k - 1)),
          RightAssign(SubSeq(operands, k + 1, Len(operands)), SubSeq(ops, k + 1, Len(ops)))>>

\* a Binary / BoolBinary node with an Assignment below it
RECURSIVE Folded(_)
Folded(shape) ==
    CASE shape[1] \in {"Binary", "BoolBinary"} ->
            \/ shape[2][1] = "Assignment" \/ shape[4][1] = "Assignment"
            \/ Folded(shape[2]) \/ Folded(shape[4])
      [] shape[1] = "Assignment" -> Folded(shape[2]) \/ Folded(shape[3])
      [] OTHER -> FALSE

ChainSources == {Join(w) : w \in ChainPrograms}

PureChainSources ==
    {Join(ChainStatement(ops)) :
        ops \in UNION {[1..n -> BinaryOpWords] : n \in 1..MaxOperands - 1}}

\* the tokens of the statement of a chain source, without its `;`
ExprToks == SubSeq(out, Len(FnHead("f")) + 1, Len(out) - 2)

TokOperands == [i \in 1..(Len(ExprToks) + 1) \div 2 |-> ExprToks[2 * i - 1].val]

TokOps == [i \in 1..(Len(ExprToks) - 1) \div 2 |-> ExprToks[2 * i].node]

SingleExpression ==
    /\ Len(program) = 1
    /\ program[1].tl = "FunctionDeclaration"
    /\ Len(program[1].body) = 1
    /\ program[1].body[1].st = "ExpressionStatement"
    /\ program[1].body[1].expr.kind # "Error"
    /\ error_count = 0

BodyShape == Shape(program[1].body[1].expr)

\* C9: binary operators bind by precedence Product > Sum > Comparison >
\* Equality > And: every chain a p b q c ... parses to the tree that splits
\* at the weakest operator; a + b * c is a + (b * c); a == b && c is
\* (a == b) && c; a as i32 + b is (a as i32) + b.
C9_Precedence ==
    Done =>
        /\ src \in PureChainSources =>
                SingleExpression /\ BodyShape = RefTree(TokOperands, TokOps)
        /\ src = Join(ChainStatement(<<"+", "*">>)) =>
                BodyShape = <<"Binary", Ident("a"), "Plus",
                              <<"Binary", Ident("b"), "Star", Ident("c")>>>>
        /\ src = Join(ChainStatement(<<"==", "&&">>)) =>
                BodyShape = <<"BoolBinary",
                              <<"BoolBinary", Ident("a"), "EqualsEquals", Ident("b")>>,
                              "AmpersandAmpersand", Ident("c")>>
        /\ src = Join(CastPlus) =>
                /\ SingleExpression
                /\ BodyShape = <<"Binary", <<"Cast", Ident("a"), I32>>, "Plus", Ident("b")>>

C9_Witness ==
    /\ Done
    /\ src = Join(ChainStatement(<<"+", "*">>))
    /\ SingleExpression
    /\ BodyShape[3] = "Plus"

\* neighbouring binary operators of the chain have equal precedence
EqualLevels ==
    \A i \in 1..Len(TokOps) - 1 :
        (TokOps[i] # "Equals" /\ TokOps[i + 1] # "Equals")
            => SpecLevel(TokOps[i]) = SpecLevel(TokOps[i + 1])

\* C10: assignment is right-associative (a = b = c is a = (b = c)) and is
\* never folded by the Pratt loop; binary operators of equal precedence are
\* left-associative (a p b q c is (a p b) q c).
C10_Associativity ==
    (Done /\ src \in ChainSources) =>
        /\ SingleExpression
        /\ ~Folded(BodyShape)
        /\ EqualLevels => BodyShape = RightAssign(TokOperands, TokOps)

C10_Witness ==
    /\ Done
    /\ src = Join(ChainStatement(<<"=", "=">>))
    /\ SingleExpression
    /\ BodyShape = <<"Assignment", Ident("a"), <<"Assignment", Ident("b"), Ident("c")>>>>

(***************************************************************************)
(* Conditions and struct initialisers.                                     *)
(***************************************************************************)
OneStatement ==
    /\ Len(program) = 1
    /\ program[1].tl = "FunctionDeclaration"
    /\ Len(program[1].body) = 1
    /\ error_count = 0

TheStatement == program[1].body[1]

\* the `{` that follows a condition of Len(form) tokens
BlockBrace(form) == out[Len(FnHead("f")) + 2 + Len(form)]

ConditionKept(kw, form) ==
    /\ OneStatement
    /\ TheStatement.st = (IF kw = "if" THEN "IfStatement" ELSE "WhileStatement")
    /\ Shape(TheStatement.condition) = CondTable[form]
    /\ BlockBrace(form).node = "LeftBrace"
    /\ TheStatement.condition.end < BlockBrace(form).start
    /\ LET stmts == IF kw = "if" THEN TheStatement.then_block ELSE TheStatement.body
       IN  Len(stmts) = 1 /\ IsReturnOf(stmts[1], Id("c"))

\* C11: a condition of `if` or `while` (no_struct = TRUE) never consumes the
\* `{` that opens the following block, whatever its form (identifier, access,
\* unary, binary, cast, new, call): the condition is the expected expression,
\* it ends before the `{`, and the block is parsed as the statement's block;
\* with no_struct = FALSE, `P { f: 1 }` after `let x =` is the
\* StructInitialization of P with the field f.
C11_NoStructInCondition ==
    Done =>
        /\ \A kw \in {"if", "while"} : \A form \in DOMAIN CondTable :
                src = Join(CondProgram(kw, form)) => ConditionKept(kw, form)
        /\ src = Join(LetStruct) =>
                /\ OneStatement
                /\ TheStatement.st = "VariableDeclaration"
                /\ TheStatement.name.node = <<"x">>
                /\ Shape(TheStatement.value) =
                      <<"StructInitialization", UserIdentifier(SourceName, <<"P">>),
                        <<<<<<"f">>, <<"DecLiteral", <<"1">>>>>>>>>>

C11_Witness ==
    /\ Done
    /\ src = Join(CondProgram("if", <<"a">>))
    /\ OneStatement
    /\ TheStatement.st = "IfStatement"
    /\ TheStatement.condition.kind = "Identifier"
    /\ Len(TheStatement.then_block) = 1

(***************************************************************************)
(* Calls.                                                                  *)
(***************************************************************************)
CallResolved(callee, args) ==
    /\ OneStatement
    /\ TheStatement.st = "ExpressionStatement"
    /\ Shape(TheStatement.expr) =
          <<"Call", CalleeTable[callee][1], CalleeTable[callee][2],
            [i \in 1..Len(args) |-> Id(args[i])]>>

\* C12: in a call, `m.f(x)` has module m and callee Identifier(f); every
\* other callee shape (`f(x)`, `a.b.c(x)`, a call, a parenthesised name) has
\* the name of the current source as module and the whole left expression as
\* callee; the arguments are kept in source order.
C12_CalleeModule ==
    Done =>
        \A callee \in DOMAIN CalleeTable : \A args \in ArgLists :
            src = Join(CallProgram(callee, args)) => CallResolved(callee, args)

C12_Witness ==
    /\ Done
    /\ src = Join(CallProgram(<<"m", ".", "f">>, <<"y", "x">>))
    /\ OneStatement
    /\ TheStatement.expr.kind = "Call"
    /\ TheStatement.expr.module = <<"m">>
    /\ Len(TheStatement.expr.arguments) = 2

(***************************************************************************)
(* Parameter lists.                                                        *)
(***************************************************************************)
VarArgsType == SimpleType([k |-> "VarArgs"])

UserType(name) == SimpleType([k |-> "UserDefinedType", file |-> SourceName, name |-> <<name>>])

ParamShape(p) == <<p.name.node, p.ty.ty>>

ExpectedParam(p) == <<<<p[1]>>, IF p[2] = "i32" THEN I32 ELSE UserType(p[2])>>

ExpectedParams(ps, dots) ==
    [i \in 1..Len(ps) |-> ExpectedParam(ps[i])]
        \o (IF dots THEN <<<<<<".", ".", ".">>, VarArgsType>>>> ELSE <<>>)

ParametersAre(external, ps, dots) ==
    /\ Len(program) = 1
    /\ error_count = 0
    /\ program[1].tl = "FunctionDeclaration"
    /\ program[1].name.node = <<"p">>
    /\ program[1].is_external = external
    /\ program[1].body = <<>>
    /\ program[1].arguments.varargs = dots
    /\ [i \in 1..Len(program[1].arguments.parameters) |->
            ParamShape(program[1].arguments.parameters[i])] = ExpectedParams(ps, dots)

\* in every function declaration a VarArgs parameter is the last one and is
\* there exactly when varargs is set
VarArgsOnlyLast(decl) ==
    LET ps == decl.arguments.parameters IN
    /\ \A i \in 1..Len(ps) :
            ps[i].ty.ty = VarArgsType =>
                i = Len(ps) /\ decl.arguments.varargs /\ ps[i].name.node = <<".", ".", ".">>
    /\ decl.arguments.varargs =>
            /\ Len(ps) > 0
            /\ ps[Len(ps)].ty.ty = VarArgsType
            /\ decl.is_external
    /\ decl.is_external => decl.body = <<>>

\* C13: parameter lists keep source order and `...` is only ever the last
\* parameter: an extern function whose list ends with `...` has
\* varargs = TRUE and, as parameters, the named parameters in source order
\* followed by exactly one pseudo-parameter "..." of type VarArgs, an empty
\* body and is_external = TRUE; a list without `...` has varargs = FALSE and
\* no VarArgs-typed parameter.
C13_ParameterLists ==
    /\ \A i \in 1..Len(program) :
            program[i].tl = "FunctionDeclaration" => VarArgsOnlyLast(program[i])
    /\ Done =>
        \A ps \in ParamLists :
            /\ \A dots \in BOOLEAN :
                    src = Join(ExternProgram(ps, dots)) => ParametersAre(TRUE, ps, dots)
            /\ src = Join(PlainProgram(ps, FALSE)) => ParametersAre(FALSE, ps, FALSE)
            /\ src = Join(DotsFirstProgram(ps)) /\ Len(ps) > 0 =>
                    \A i \in 1..Len(program) : program[i].tl = "Error"

C13_Witness ==
    /\ Done
    /\ src = Join(ExternProgram(<<<<"b", "P">>, <<"a", "i32">>>>, TRUE))
    /\ Len(program) = 1
    /\ program[1].tl = "FunctionDeclaration"
    /\ program[1].arguments.varargs
    /\ Len(program[1].arguments.parameters) = 3

(***************************************************************************)
(* Struct declarations.                                                    *)
(***************************************************************************)
PairParsed ==
    /\ Len(program) = 1
    /\ error_count = 0
    /\ program[1].tl = "TypeDeclaration"
    /\ program[1].ty.td = "StructDefinition"
    /\ program[1].ty.name.node = Spell("Pair")
    /\ [i \in 1..Len(program[1].ty.fields) |->
            <<program[1].ty.fields[i][1].node, program[1].ty.fields[i][2].ty>>]
         = <<<<Spell("key"), UserType("K")>>, <<Spell("value"), UserType("V")>>>>
    /\ program[1].ty.methods = <<>>

\* the generic parameters a struct definition holds
GenericsOf(ty) ==
    IF "generic_parameters" \in DOMAIN ty
    THEN [i \in 1..Len(ty.generic_parameters) |-> ty.generic_parameters[i].node]
    ELSE <<>>

\* C14: `type Pair struct<K, V> { @key: K; @value: V; }` yields a
\* StructDefinition with the fields (key, UserDefinedType K) and
\* (value, UserDefinedType V) in source order, no methods, and the generic
\* parameters [K, V] stored on the struct definition.
C14_StructGenerics ==
    Done /\ src = Join(PairStruct) =>
        /\ PairParsed
        /\ GenericsOf(program[1].ty) = <<<<"K">>, <<"V">>>>

\* the part of the above that the parser delivers: fields and methods
C14_FieldsOnly == Done /\ src = Join(PairStruct) => PairParsed

C14_Reached == Done /\ src = Join(PairStruct)

(***************************************************************************)
(* Trait declarations.                                                     *)
(***************************************************************************)
TraitSources == {Join(w) : w \in TraitPrograms}

\* C15: a `type NAME trait ...` declaration is rejected with an error value:
\* parse() does not panic on it, yields a TopLevel::Error for it and goes on
\* with the rest of the input.
C15_TraitRejected ==
    src \in TraitSources =>
        /\ pstate # "panic"
        /\ Done => \E i \in 1..Len(program) : program[i].tl = "Error"

C15_TraitReached ==
    /\ src = Join(<<"type", "T", "trait", "{", "}">> \o GoodFn)
    /\ lexdone
    /\ pstate = "panic"
    /\ program = <<>>

(***************************************************************************)
(* Pointer and reference depth.                                            *)
(***************************************************************************)
\* C16: Pointer::new and Ref::new produce a value only when the depth is 1
\* or 2; every other depth (0 as well as 3 and above) is a hard error, so
\* that no Pointer or Ref of a depth outside {1, 2} exists.
C16_DepthOneOrTwo ==
    /\ ctor.state = "made" => ctor.size \in {1, 2} /\ ctor.value.size \in {1, 2}
    /\ ctor.state = "panic" => ctor.size \notin {1, 2}

\* a Pointer of depth 0 has been made
C16_DepthZeroMade ==
    /\ ctor.state = "made"
    /\ ctor.kind = "Pointer"
    /\ ctor.value.size = 0

\* the part that holds: a depth above 2 is never made
C16_NeverAboveTwo == ctor.state = "made" => ctor.value.size <= 2

(***************************************************************************)
(* Progress and termination of the lexer.                                  *)
(***************************************************************************)
\* one call of next(): a call that returns Some has consumed at least one
\* character and leaves the iterator open, whether the item is a token or
\* an error; once None has been returned, None is returned again and
\* nothing is emitted; the cursor never leaves the source
NextProgress ==
    /\ Len(out') = Len(out) + 1 => lx'.cur > lx.cur /\ ~lexdone'
    /\ Len(out') \in {Len(out), Len(out) + 1}
    /\ lx'.cur >= lx.cur
    /\ lx'.cur <= Len(src) + 1
    /\ lexdone => lexdone' /\ out' = out

\* C17: the lexer never panics and always terminates: every call of next()
\* that returns Some consumes at least one character, a call that returns
\* Err is followed by the scanning of the remaining input, and after
\* finitely many calls next() returns None and keeps returning None.
C17_LexerTerminates == [][NextProgress]_vars /\ <>[]lexdone

\* an error has been returned, scanning went on and a token followed, and
\* the lexer has ended
C17_Witness ==
    /\ lexdone
    /\ \E i \in 1..Len(out) : \E j \in (i + 1)..Len(out) : ~out[i].ok /\ out[j].ok

(***************************************************************************)
(* Progress and termination of parse().                                    *)
(***************************************************************************)
\* one iteration of the top-level loop that goes on to the next one has
\* consumed at least one token; parse() returns only with the token stream
\* exhausted, and the position never passes the end of the stream
IterationConsumes ==
    /\ lexdone /\ pstate \in {"new", "run"} /\ pstate' = "run" => tpos' > tpos
    /\ pstate' = "done" => tpos' = Len(out') + 1
    /\ lexdone' => tpos' <= Len(out') + 1 /\ Len(program') < tpos'

\* C18: parse() consumes all input and cannot livelock: whenever it returns
\* the token stream is exhausted, and every iteration of its top-level loop,
\* the error-recovery path included, consumes at least one token, so that
\* the loop runs at most once per token of the stream.
C18_ParseConsumesAll == [][IterationConsumes]_vars

\* parse() has returned after an iteration that went through error recovery
C18_Witness ==
    /\ Done
    /\ tpos = Len(out) + 1
    /\ error_count > 0
    /\ \E i \in 1..Len(program) : program[i].tl = "Error"
    /\ \E i \in 1..Len(program) : program[i].tl = "FunctionDeclaration"

(***************************************************************************)
(* Runs of dots.                                                           *)
(***************************************************************************)
\* the first character at or after the cursor that is not whitespace
NextStart ==
    LET rest == {i \in lx.cur..Len(src) : src[i] \notin Whitespace}
    IN  IF rest = {} THEN Len(src) + 1 ELSE CHOOSE i \in rest : \A j \in rest : i <= j

\* the length of the longest run of dots that starts at i
RunLen(i) ==
    LET ends == {j \in i..Len(src) : \A k \in i..j : src[k] = "."}
    IN  Cardinality(ends)

DotsItem(item, i, n) ==
    IF n = 1 THEN item.ok /\ item.node = "Dot"
    ELSE IF n = 3 THEN item.ok /\ item.node = "Varargs"
    ELSE /\ ~item.ok
         /\ item.node = "LexingError"
         /\ item.val = "too many dots"
         /\ item.start = ByteOffsetOf(src, i)
         /\ item.end = ByteOffsetOf(src, i + n - 1)

\* a call of next() that begins at a maximal run of dots
DotsStep ==
    LET i == NextStart IN
    (i <= Len(src) /\ src[i] = "." /\ (i = 1 \/ src[i - 1] # ".")) =>
        /\ Len(out') = Len(out) + 1
        /\ SubSeq(out', 1, Len(out)) = out
        /\ DotsItem(out'[Len(out')], i, RunLen(i))
        /\ lx'.cur = i + RunLen(i)

C19_VarargsReached ==
    /\ src = <<".", ".", ".">>
    /\ Len(out) = 1
    /\ out[1].node = "Varargs"

(***************************************************************************)
(* Unterminated string literals.                                           *)
(***************************************************************************)
Unterminated(i) ==
    /\ i <= Len(src)
    /\ src[i] = "\""
    /\ \A j \in (i + 1)..Len(src) : src[j] # "\""

\* a call of next() that begins at a `"` with no closing `"`
UnterminatedStep ==
    Unterminated(NextStart) =>
        /\ Len(out') = Len(out) + 1
        /\ SubSeq(out', 1, Len(out)) = out
        /\ ~out'[Len(out')].ok
        /\ out'[Len(out')].node = "LexingError"
        /\ out'[Len(out')].val = "unterminated string literal"
        /\ out'[Len(out')].end = ByteLen(src)
        /\ ~scan_token(src, lx').some

SyncStop(i, j) ==
    \/ j = Len(out) + 1
    \/ j > i /\ out[j - 1].node = "Semicolon"
    \/ out[j].node \in SyncKeywords

SyncTarget(i) ==
    CHOOSE j \in i..(Len(out) + 1) :
        SyncStop(i, j) /\ \A k \in i..(j - 1) : ~SyncStop(i, k)

SyncFrom(i) == sync([i |-> i, ec |-> 0]).i

\* C21: sync() advances until the previous token was `;` or the next token
\* is one of type / fn / if / let / return: entered at any position of a
\* token stream it stops at the first point where either holds and consumes
\* nothing beyond it; entered with the next token already one of those
\* keywords, it does not consume that keyword.
C21_SyncStopsAtFirstAnchor ==
    lexdone /\ NoLexErrors =>
        \A i \in 1..(Len(out) + 1) : SyncFrom(i) = SyncTarget(i)

\* the part that holds: entered anywhere but at an anchor keyword, sync()
\* stops at the first anchor
C21_ExceptAtKeyword ==
    lexdone /\ NoLexErrors =>
        \A i \in 1..(Len(out) + 1) :
            (i <= Len(out) => out[i].node \notin SyncKeywords) =>
                SyncFrom(i) = SyncTarget(i)

\* block() has run sync() from a `return`: the statement `return a;` that
\* follows the stray `@` is not in the block
C21_KeywordConsumed ==
    /\ Done
    /\ src = Join(WrapBody(<<"@", "return", "a", ";", "return", "b", ";">>))
    /\ Len(program) = 1
    /\ Len(program[1].body) = 2
    /\ IsErrorStatement(program[1].body[1])
    /\ IsReturnOf(program[1].body[2], Id("b"))

(***************************************************************************)
(* Blocks after a failed statement.                                        *)
(***************************************************************************)
BlockShapeKept ==
    /\ Len(program) = 2
    /\ program[1].tl = "FunctionDeclaration"
    /\ program[1].name.node = <<"f">>
    /\ \E i \in 1..Len(program[1].body) : IsErrorStatement(program[1].body[i])
    /\ IsGoodFn(program[2])

\* C22: after a statement of a block fails and sync() has run, the `}` that
\* closes the block is still the token that ends that block() call: sync()
\* never consumes it, and the function that follows the block is parsed as a
\* top-level item of its own, not absorbed into the block.
C22_BlockShapeKept ==
    Done =>
        \A tail \in FailingTails :
            src = Join(BlockRecoveryProgram(tail)) => BlockShapeKept

\* the part that holds: a failing statement with a `;` before the `}`
C22_WithSemicolon ==
    Done =>
        \A tail \in {<<"@", ";">>, <<"a", "b", ";">>, <<"let", "x", ";">>} :
            src = Join(BlockRecoveryProgram(tail)) => BlockShapeKept

\* `{ return a; @ }` followed by fn g: sync() has consumed the `}`, and the
\* tokens of g are statements of f's block
C22_BraceConsumed ==
    /\ Done
    /\ src = Join(BlockRecoveryProgram(<<"return", "a", ";", "@">>))
    /\ Len(program) = 1
    /\ program[1].name.node = <<"f">>
    /\ Len(program[1].body) > 2

(***************************************************************************)
(* Pointer and reference types.                                            *)
(***************************************************************************)
BaseSimple(base) == IF base = "i32" THEN I32.s ELSE UserType(base).s

MarkedTypeParsed(mark, k, base) ==
    /\ OneStatement
    /\ TheStatement.st = "VariableDeclaration"
    /\ Len(TheStatement.ty) = 1
    /\ TheStatement.ty[1].ty =
          [t |-> IF mark = "*" THEN "Pointer" ELSE "Ref", base |-> BaseSimple(base), size |-> k]

\* C23: pointer and reference types are parsed alike: k consecutive `*`
\* followed by a Simple type T give Pointer{base T, depth k}, and k
\* consecutive `&` followed by T give Ref{base T, depth k}, for k = 1 and
\* k = 2.
C23_PointerAndRefAlike ==
    Done =>
        \A mark \in {"*", "&"} : \A k \in {1, 2} : \A base \in {"i32", "P"} :
            src = Join(TypedLet(<<MarkWord(mark, k), base>>)) =>
                MarkedTypeParsed(mark, k, base)

\* the part that holds: `*`, `**` and a single `&`
C23_AllButDoubleRef ==
    Done =>
        \A mark \in {"*", "&"} : \A k \in {1, 2} : \A base \in {"i32", "P"} :
            src = Join(TypedLet(<<MarkWord(mark, k), base>>)) /\ ~(mark = "&" /\ k = 2) =>
                MarkedTypeParsed(mark, k, base)

\* `let x: &&i32 = 1;` has been parsed: the declaration is an error
C23_DoubleRefRejected ==
    /\ Done
    /\ src = Join(TypedLet(<<"&&", "i32">>))
    /\ error_count > 0
    /\ Len(program) = 1
    /\ Len(program[1].body) >= 1
    /\ IsErrorStatement(program[1].body[1])

(***************************************************************************)
(* Errors inside an array type.                                            *)
(***************************************************************************)
ArrayErrorSources == {Join(w) : w \in ArrayErrorPrograms}

\* C24: errors inside a type parse bubble upward: when the size expression
\* of an array type fails to parse, or the input ends or holds a lexical
\* error inside the brackets, consume_type returns that error to its caller
\* and recovery handles it: the parser does not abort, and the error is
\* counted.
C24_ArraySizeErrorBubbles ==
    src \in ArrayErrorSources =>
        /\ pstate # "panic"
        /\ Done => error_count > 0 /\ Len(program) >= 1

\* the part that holds: an array type whose size parses
C24_GoodSizes ==
    Done =>
        \A size \in GoodSizes :
            src = Join(ArrayLet(size)) =>
                /\ OneStatement
                /\ TheStatement.st = "VariableDeclaration"
                /\ Len(TheStatement.ty) = 1
                /\ TheStatement.ty[1].ty.t = "Array"
                /\ TheStatement.ty[1].ty.base = I32.s

\* `let x: [@]i32 = 1;`: parse() has been aborted inside consume_type
C24_Aborted ==
    /\ src = Join(ArrayLet(<<"@">>) \o GoodFn)
    /\ lexdone
    /\ pstate = "panic"
    /\ program = <<>>

(***************************************************************************)
(* Literals.                                                               *)
(***************************************************************************)
\* the token of the literal in LiteralProgram
LiteralToken == out[Len(FnHead("f")) + 2]

LiteralParsed(lit) ==
    /\ OneStatement
    /\ TheStatement.st = "ReturnStatement"
    /\ Len(TheStatement.expr) = 1
    /\ TheStatement.expr[1].kind = LiteralTable[lit]
    /\ LiteralToken.node = LiteralTable[lit]
    /\ TheStatement.expr[1].start = LiteralToken.start
    /\ TheStatement.expr[1].end = LiteralToken.end

\* C25: every literal form parses to its literal expression kind with the
\* span of its token: `null` gives NullLiteral, a decimal integer
\* DecLiteral, a float FloatLiteral, a string StringLiteral and a character
\* Char; the lexer turns the word `null` into the NullLiteral token.
C25_Literals ==
    Done =>
        \A lit \in DOMAIN LiteralTable :
            src = Join(LiteralProgram(lit)) => LiteralParsed(lit)

\* the part that holds: the literals other than `null`
C25_AllButNull ==
    Done =>
        \A lit \in DOMAIN LiteralTable \ {"null"} :
            src = Join(LiteralProgram(lit)) => LiteralParsed(lit)

\* `return null;` has been parsed: `null` is an Identifier
C25_NullIsIdentifier ==
    /\ Done
    /\ src = Join(LiteralProgram("null"))
    /\ LiteralToken.node = "Identifier"
    /\ OneStatement
    /\ TheStatement.expr[1].kind = "Identifier"
    /\ TheStatement.expr[1].name = <<"n", "u", "l", "l">>

(***************************************************************************)
(* Unterminated blocks.                                                    *)
(***************************************************************************)
AcceptedClean ==
    /\ error_count = 0
    /\ \E i \in 1..Len(program) : program[i].tl = "FunctionDeclaration"

\* C26: block() returns Ok only after consuming the `}` that closes it: when
\* the input ends before the closing `}`, the block parse reports an error,
\* so that a function whose body is not closed is never accepted as a
\* FunctionDeclaration with error_count = 0.
C26_UnterminatedBlockRejected ==
    Done =>
        \A body \in OpenBodies :
            src = Join(OpenProgram(body)) => ~AcceptedClean /\ error_count > 0

\* `fn f() => i32 { return 0;` has been accepted
C26_OpenBodyAccepted ==
    /\ Done
    /\ src = Join(OpenProgram(<<"return", "0", ";">>))
    /\ error_count = 0
    /\ Len(program) = 1
    /\ program[1].tl = "FunctionDeclaration"
    /\ Len(program[1].body) = 1
    /\ IsReturnOf(program[1].body[1], <<"DecLiteral", <<"0">>>>)

(***************************************************************************)
(* Casts to user-named types.                                              *)
(***************************************************************************)
UserTypeOf(ty) ==
    IF Len(ty) = 1
    THEN SimpleType([k |-> "UserDefinedType", file |-> SourceName, name |-> <<ty[1]>>])
    ELSE SimpleType([k |-> "UserDefinedType", file |-> <<ty[1]>>, name |-> <<ty[3]>>])

CastShape(ty) == <<"Cast", Id("a"), UserTypeOf(ty)>>

OperatorKind(op) == IF op = "==" THEN <<"BoolBinary", "EqualsEquals">>
                    ELSE IF op = "+" THEN <<"Binary", "Plus">> ELSE <<"Binary", "Star">>

UserCastShape(ty, tail) ==
    IF tail = <<>> THEN CastShape(ty)
    ELSE <<OperatorKind(tail[1])[1], CastShape(ty), OperatorKind(tail[1])[2], Id(tail[2])>>

\* C27: parsing a user-named type consumes only the type name: consume_type
\* at an Identifier consumes exactly NAME or MODULE . NAME and leaves every
\* following token unread, so that a cast to a user type composes with
\* operators as a cast to a built-in type does: a as T + b is
\* Binary(Cast(a, T), +, b).
C27_UserTypeConsumesName ==
    Done =>
        \A ty \in UserTypeWords : \A tail \in CastTails :
            src = Join(UserCast(ty, tail)) =>
                SingleExpression /\ BodyShape = UserCastShape(ty, tail)

\* the part that holds: a cast to a user type that ends the expression
C27_CastAlone ==
    Done =>
        \A ty \in UserTypeWords :
            src = Join(UserCast(ty, <<>>)) =>
                SingleExpression /\ BodyShape = UserCastShape(ty, <<>>)

\* `a as T + b;` has been parsed: the statement is an error
C27_CastPlusRejected ==
    /\ Done
    /\ src = Join(UserCast(<<"T">>, <<"+", "b">>))
    /\ error_count > 0
    /\ Len(program) = 1
    /\ Len(program[1].body) = 1
    /\ IsErrorStatement(program[1].body[1])

(***************************************************************************)
(* Extern declarations after a failed item.                                *)
(***************************************************************************)
IsGoodExtern(item) ==
    /\ item.tl = "FunctionDeclaration"
    /\ item.name.node = <<"p">>
    /\ item.is_external
    /\ item.body = <<>>
    /\ item.arguments.varargs = FALSE
    /\ Len(item.arguments.parameters) = 1

\* C28: top-level items are recovered independently: a well-formed
\* `extern fn` declaration that follows a failed top-level item is parsed as
\* a FunctionDeclaration with is_external = TRUE and an empty body, and
\* gives no further Error item; the re-synchronisation never discards the
\* first token of a following well-formed item.
C28_ExternAfterFailure ==
    Done =>
        \A bad \in BadItems :
            src = Join(bad \o GoodExtern) =>
                /\ Len(program) >= 2
                /\ IsGoodExtern(program[Len(program)])
                /\ \A i \in 1..(Len(program) - 1) : program[i].tl = "Error"

\* the part that holds: the extern declaration with no failed item before it
C28_ExternAlone ==
    Done /\ src = Join(GoodExtern \o GoodFn) =>
        /\ Len(program) = 2
        /\ IsGoodExtern(program[1])
        /\ IsGoodFn(program[2])
        /\ error_count = 0

\* `x extern fn p(a: i32) => i32;` has been parsed: two Error items and no
\* declaration
C28_ExternLost ==
    /\ Done
    /\ src = Join(<<"x">> \o GoodExtern)
    /\ Len(program) = 2
    /\ program[1].tl = "Error"
    /\ program[2].tl = "Error"

(***************************************************************************)
(* The error counter and the Error nodes.                                  *)
(***************************************************************************)
RECURSIVE BlockSentinels(_)
RECURSIVE StatementSentinels(_)
StatementSentinels(s) ==
    IF IsErrorStatement(s) THEN 1
    ELSE IF s.st = "WhileStatement" THEN BlockSentinels(s.body)
    ELSE IF s.st = "IfStatement"
    THEN BlockSentinels(s.then_block)
         + (IF s.else_branch = <<>> THEN 0
            ELSE IF s.else_branch[1].e = "Block" THEN BlockSentinels(s.else_branch[1].block)
            ELSE StatementSentinels(s.else_branch[1].stmt))
    ELSE 0

BlockSentinels(stmts) ==
    IF stmts = <<>> THEN 0
    ELSE StatementSentinels(Head(stmts)) + BlockSentinels(Tail(stmts))

RECURSIVE ItemSentinels(_)
ItemSentinels(items) ==
    IF items = <<>> THEN 0
    ELSE (LET item == Head(items) IN
          IF item.tl = "Error" THEN 1
          ELSE IF item.tl = "FunctionDeclaration" THEN BlockSentinels(item.body)
          ELSE IF item.tl = "TypeDeclaration" /\ item.ty.td = "StructDefinition"
          THEN ItemSentinels(item.ty.methods)
          ELSE 0)
         + ItemSentinels(Tail(items))

\* C29: after parse() has returned, error_count is at least the number of
\* Error sentinels of the program (TopLevel::Error items and
\* ExpressionStatement(Error) statements at any depth), and it is 0 exactly
\* when the program holds no sentinel.
C29_ErrorCountConsistent ==
    Done =>
        /\ error_count >= ItemSentinels(program)
        /\ error_count = 0 <=> ItemSentinels(program) = 0

\* two sentinels at different depths, counted more than twice
C29_Witness ==
    /\ Done
    /\ src = Join(WrapBody(<<"while", "a", "{", "if", "b", "{", "@", ";", "}", "a", "b", ";", "}">>))
    /\ ItemSentinels(program) = 2
    /\ error_count > 2

\* a failed statement dropped with the if statement around it
C29_SentinelDropped ==
    /\ Done
    /\ src = Join(WrapBody(<<"if", "a", "{", "@", ";", "}", "else", "@", ";">>))
    /\ ItemSentinels(program) = 1
    /\ error_count > 1

(***************************************************************************)
(* Scoping of the symbol table.                                            *)
(***************************************************************************)
\* the scopes on the stack that bind name
Binding(name) == {i \in 1..Len(symtab.scopes) : name \in DOMAIN symtab.scopes[i]}

Innermost(name) == CHOOSE i \in Binding(name) : \A j \in Binding(name) : j <= i

\* what lookup(name) has to return: the symbol of the innermost scope that
\* binds name, or None
Visible(name) ==
    IF Binding(name) = {} THEN <<>> ELSE <<symtab.scopes[Innermost(name)][name]>>

\* C30: after any sequence of enter_scope, exit_scope and bind, lookup(name)
\* returns the symbol bound to name in the innermost scope on the stack that
\* binds it, and None only when no scope on the stack binds name; lookup
\* right after bind(name, ...) returns that binding.
C30_LookupInnermost ==
    symtab.state = "ready" /\ symtab.looked # <<>> =>
        symtab.looked[2] = Visible(symtab.looked[1])

\* the part that holds: a name that no scope binds is not found
C30_NoneWhenUnbound ==
    symtab.state = "ready" /\ symtab.looked # <<>> /\ Binding(symtab.looked[1]) = {} =>
        symtab.looked[2] = <<>>

\* lookup("x") right after bind("x", ...) in an inner scope has returned None
C30_BoundNotFound ==
    /\ symtab.state = "ready"
    /\ Len(symtab.scopes) = 2
    /\ "x" \in DOMAIN symtab.scopes[2]
    /\ symtab.looked = <<"x", <<>>>>

====
